---- MODULE Spec2Model ----
(***************************************************************************)
(* Model of the maplibre-gl-streetview control: the StreetViewControl      *)
(* orchestrator, its Viewer / ProviderTabs / Panel / NoDataMessage /       *)
(* StreetViewMarker components and the two imagery providers.              *)
(*                                                                         *)
(* One action is one task of the JavaScript event loop: a public method    *)
(* call or DOM event runs to completion (including every synchronous call  *)
(* it makes), and an asynchronous lookup advances when the response of its *)
(* outstanding HTTP request arrives, running up to its next request or to  *)
(* its end.                                                                *)
(***************************************************************************)
EXTENDS Integers, Sequences, FiniteSets, TLC

\* null / undefined: a string-valued field holds None, any other nullable
\* value is a sequence of length at most one.
None == "none"
Null == <<>>
Some(v) == <<v>>
Val(x) == x[1]

\* ------------------------------------------------------------------ bounds
MaxLookups == 2
NumLocations == 2

\* ------------------------------------------------------- program constants
DefaultQueryRadius == 50
SearchNearbyRadius == 500
FullCircle == 360

ProviderTypes == {"google", "mapillary"}
Locations == 1..NumLocations
CompassAngles == {Some(90)}
ReportedHeadings == {45}
\* A heading a caller hands to GoogleStreetViewProvider.setHeading: one turn
\* and 45 degrees.
RequestedHeadings == {405}
FetchFailures == {"network_error", "http_error", "parse_error"}
\* A reply that parses: imagery, no coverage, or a body that reports no
\* usable result (a Google status other than OK, a Mapillary body without data).
FetchBodies == {"found", "empty", "not_ok"}
FetchOutcomes == FetchFailures \cup FetchBodies

GoogleRadii == <<50, 100, 200, 500>>
MapillaryRadii == <<50, 100, 250, 500>>

NoProviderMessage == "No street view provider is configured."
RenderFailedMessage == "viewer init failed"
RequestFailedMessage == "request failed"

VARIABLES options, state, map, panel, tabs, viewer, noDataMessage, marker,
          googleProvider, mapillaryProvider, lookups, issued, last,
          eventHandlers, dropped, search,
          resizable, standalone, hook, helper, wrapper, subscriber, caller

vars == <<options, state, map, panel, tabs, viewer, noDataMessage, marker,
          googleProvider, mapillaryProvider, lookups, issued, last,
          eventHandlers, dropped, search,
          resizable, standalone, hook, helper, wrapper, subscriber, caller>>

\* ------------------------------------------------------------ pure helpers
JsRemainder(a, b) == IF a >= 0 THEN a % b ELSE 0 - ((0 - a) % b)

\* Variant that returns the remainder as JavaScript computes it.
normalizeHeadingRemainder(heading) == JsRemainder(heading, FullCircle)

normalizeHeading(heading) ==
  LET normalized == JsRemainder(heading, FullCircle)
  IN IF normalized < 0 THEN normalized + FullCircle ELSE normalized

RadiiOf(p) == IF p = "google" THEN GoogleRadii ELSE MapillaryRadii

FilteredRadii(p, maxRadius) ==
  SelectSeq(RadiiOf(p), LAMBDA r : r <= maxRadius \/ r = DefaultQueryRadius)

\* Variant without the loop's break on a radius above maxRadius; the radius
\* properties below must tell it from the real loop.
NearestNextRadiusNoBreak(p, maxRadius, idx) ==
  LET radii == FilteredRadii(p, maxRadius)
  IN IF idx > Len(radii) THEN 0 ELSE radii[idx]

\* The loop of findNearestImagery entered at position idx of the filtered
\* list: the radius of the query it issues next, or 0 when it returns null.
NearestNextRadius(p, maxRadius, idx) ==
  LET radii == FilteredRadii(p, maxRadius)
  IN IF idx > Len(radii) THEN 0
     ELSE IF radii[idx] > maxRadius THEN 0
     ELSE radii[idx]

\* fetchJson: rejects on a network failure, a non-OK status, a parse failure.
fetchJson(outcome) ==
  IF outcome \in FetchFailures
    THEN [rejected |-> TRUE, body |-> None]
    ELSE [rejected |-> FALSE, body |-> outcome]

ImageryResult(p, point, heading) ==
  [provider |-> p, location |-> point,
   heading |-> IF p = "google" THEN Null ELSE heading]

\* Variant without the catch block: a failed request rejects the promise.
queryImageryUncaught(p, point, outcome, heading) ==
  LET response == fetchJson(outcome)
  IN IF response.rejected
       THEN [rejected |-> TRUE, value |-> Null]
       ELSE IF response.body = "found"
         THEN [rejected |-> FALSE,
               value |-> Some(ImageryResult(p, point, heading))]
         ELSE [rejected |-> FALSE, value |-> Null]

\* queryImagery of either provider, given what the request comes back with:
\* the settlement of the returned promise.
queryImagery(p, point, outcome, heading) ==
  LET response == fetchJson(outcome)
  IN IF response.rejected
       THEN [rejected |-> FALSE, value |-> Null]
       ELSE IF response.body = "found"
         THEN [rejected |-> FALSE,
               value |-> Some(ImageryResult(p, point, heading))]
         ELSE [rejected |-> FALSE, value |-> Null]

\* ------------------------------------------------- the control as a record
\* The objects the control owns, gathered so that a method and the methods
\* it calls synchronously compose as functions of this record.
World ==
  [options |-> options, state |-> state, map |-> map, panel |-> panel,
   tabs |-> tabs, viewer |-> viewer, noDataMessage |-> noDataMessage,
   marker |-> marker, googleProvider |-> googleProvider,
   mapillaryProvider |-> mapillaryProvider, lookups |-> lookups,
   eventHandlers |-> eventHandlers, dropped |-> dropped,
   emitted |-> <<>>, delivered |-> <<>>, invoked |-> <<>>]

ProviderOf(w, p) ==
  IF p = "google" THEN w.googleProvider ELSE w.mapillaryProvider

WithProvider(w, p, obj) ==
  IF p = "google" THEN [w EXCEPT !.googleProvider = obj]
                  ELSE [w EXCEPT !.mapillaryProvider = obj]

getCurrentProvider(w) == ProviderOf(w, w.state.activeProvider)

\* Variant that takes any credential, the empty one too, as configured.
isConfiguredAlways(credential) == TRUE

\* isConfigured of either provider: Boolean(credential).
isConfigured(credential) == credential # ""

\* The credential the constructor hands to provider p.
CredentialOf(w, p) ==
  IF p = "google" THEN w.options.googleApiKey
                  ELSE w.options.mapillaryAccessToken

getAvailableProviders(w) ==
  {p \in ProviderTypes :
     ProviderOf(w, p) # Null /\ isConfigured(CredentialOf(w, p))}

\* _eventHandlers: a subscription is an event name with a handler.  The Map
\* of Sets holds each subscription at most once.
Subscription(event, handler) == [event |-> event, handler |-> handler]

\* The handlers the loop of emit calls for an event, each once.
HandlersFor(handlers, event) ==
  {s.handler : s \in {t \in handlers : t.event = event}}

\* emit: the event's name, the copy of the state handed to the handlers, and
\* the handlers called with it.
emit(w, event) ==
  [w EXCEPT !.emitted = Append(@, event), !.delivered = Append(@, w.state),
            !.invoked = Append(@, [type |-> event,
                                   handlers |-> HandlersFor(w.eventHandlers,
                                                            event)])]

\* Variant of off that removes the handler from every event.
offEveryEvent(handlers, event, handler) ==
  {s \in handlers : s.handler # handler}

\* on and off, on the Map alone.
on(handlers, event, handler) ==
  handlers \cup {Subscription(event, handler)}

off(handlers, event, handler) ==
  handlers \ {Subscription(event, handler)}

\* on and off of the control.  dropped: the subscriptions that onRemove
\* cleared and on has not made again since.
controlOn(w, event, handler) ==
  [w EXCEPT !.eventHandlers = on(@, event, handler),
            !.dropped = @ \ {Subscription(event, handler)}]

controlOff(w, event, handler) ==
  [w EXCEPT !.eventHandlers = off(@, event, handler)]

\* ---------------------------------------------------------------- marker
markerSetHeading(w, heading) ==
  IF w.marker = Null THEN w
  ELSE [w EXCEPT !.marker =
          Some([Val(@) EXCEPT !.heading = normalizeHeading(heading)])]

\* Variant that puts the marker on the map when it moves it.
markerShowImageryAttaches(w, imagery) ==
  IF w.marker # Null /\ w.map
    THEN LET w1 == [w EXCEPT !.marker =
                      Some([Val(@) EXCEPT !.onMap = TRUE,
                                          !.lngLat = Some(imagery.location)])]
         IN IF imagery.heading # Null
              THEN markerSetHeading(w1, Val(imagery.heading))
              ELSE w1
    ELSE w

\* The marker update of a lookup that found imagery.
markerShowImagery(w, imagery) ==
  IF w.marker # Null /\ w.map
    THEN LET w1 == [w EXCEPT !.marker =
                      Some([Val(@) EXCEPT !.lngLat = Some(imagery.location)])]
         IN IF imagery.heading # Null
              THEN markerSetHeading(w1, Val(imagery.heading))
              ELSE w1
    ELSE w

\* ----------------------------------------------------- heading propagation
handleHeadingChange(w, heading) ==
  emit(markerSetHeading([w EXCEPT !.state.heading = heading], heading),
       "headingchange")

emitHeadingChange(w, p, heading) ==
  IF "viewer" \in Val(ProviderOf(w, p)).headingCallbacks
    THEN handleHeadingChange(w, heading)
    ELSE w

\* ------------------------------------------ a provider's heading callbacks
\* A provider object taken by itself: the callbacks subscribed to its
\* heading, and the viewer or iframe it holds while rendered.
HeadingCallbacks == {"first", "second"}

onHeadingChange(provider, callback) ==
  [provider EXCEPT !.headingCallbacks = @ \cup {callback}]

\* Variant that leaves the callback subscribed.
offHeadingChangeKeeps(provider, callback) == provider

offHeadingChange(provider, callback) ==
  [provider EXCEPT !.headingCallbacks = @ \ {callback}]

\* Variant that drops the viewer but keeps the subscriptions.
destroyKeepsCallbacks(provider) == [provider EXCEPT !.rendered = Null]

destroy(provider) ==
  [provider EXCEPT !.rendered = Null, !.headingCallbacks = {}]

\* render of provider p taken by itself; MapillaryProvider.render destroys
\* what it held first.
render(provider, p, imagery) ==
  IF p = "google" THEN [provider EXCEPT !.rendered = Some(imagery)]
  ELSE [destroy(provider) EXCEPT !.rendered = Some(imagery)]

\* --------------------------------------------------------------- providers
providerDestroy(w, p) ==
  WithProvider(w, p, Some(destroy(Val(ProviderOf(w, p)))))

\* render: the world it leaves and whether it threw.  Only the construction
\* of the MapillaryJS viewer can throw.
providerRender(w, p, imagery, throws) ==
  IF p = "google"
    THEN [w |-> WithProvider(w, p, Some([Val(ProviderOf(w, p)) EXCEPT
                                           !.rendered = Some(imagery)])),
          threw |-> FALSE]
    ELSE LET w1 == providerDestroy(w, p)
             w2 == WithProvider(w1, p, Some([Val(ProviderOf(w1, p)) EXCEPT
                                               !.rendered = Some(imagery)]))
         IN IF throws THEN [w |-> w1, threw |-> TRUE]
            ELSE [w |-> IF imagery.heading # Null
                          THEN emitHeadingChange(w2, p, Val(imagery.heading))
                          ELSE w2,
                  threw |-> FALSE]

\* ------------------------------------------------------------------ viewer
viewerClearContent(w) ==
  IF w.viewer = Null THEN w
  ELSE LET v == Val(w.viewer)
           w1 == IF v.currentProvider # None
                   THEN providerDestroy(
                          WithProvider(w, v.currentProvider,
                            Some(offHeadingChange(
                                   Val(ProviderOf(w, v.currentProvider)),
                                   "viewer"))),
                          v.currentProvider)
                   ELSE w
       IN [w1 EXCEPT
             !.viewer = Some([initial |-> FALSE, loading |-> None,
                              currentProvider |-> None]),
             !.noDataMessage = IF @ = Null THEN Null
                               ELSE Some([Val(@) EXCEPT !.attached = FALSE])]

viewerShowInitialState(w) ==
  IF w.viewer = Null THEN w
  ELSE [viewerClearContent(w) EXCEPT
          !.viewer = Some([Val(@) EXCEPT !.initial = TRUE])]

viewerShowLoading(w, message) ==
  IF w.viewer = Null THEN w
  ELSE [w EXCEPT !.viewer = Some([Val(@) EXCEPT !.loading = message])]

viewerDisplayImagery(w, p, imagery, throws) ==
  IF w.viewer = Null THEN [w |-> w, threw |-> FALSE]
  ELSE LET w1 == viewerClearContent(w)
           w2 == [w1 EXCEPT
                    !.viewer = Some([Val(@) EXCEPT !.currentProvider = p])]
           w3 == WithProvider(w2, p,
                   Some(onHeadingChange(Val(ProviderOf(w2, p)), "viewer")))
       IN providerRender(w3, p, imagery, throws)

\* ---------------------------------------------------------- no-data message
showNoData(w, errorMessage) ==
  IF w.viewer = Null THEN w
  ELSE [viewerClearContent(w) EXCEPT
          !.noDataMessage =
             Some([mode |-> IF errorMessage # None THEN "error" ELSE "nodata",
                   message |-> errorMessage,
                   buttonDisabled |-> FALSE,
                   attached |-> TRUE])]

noDataShow(w, mode, message, disabled) ==
  IF w.noDataMessage = Null THEN w
  ELSE [w EXCEPT !.noDataMessage =
          Some([Val(@) EXCEPT !.mode = mode, !.message = message,
                              !.buttonDisabled = disabled])]

\* ------------------------------------------------------------ showStreetView
\* Variant that records the location before it looks for the provider.
showStreetViewStartEager(w, location) ==
  LET p == w.state.activeProvider
      w0 == [w EXCEPT !.state.location = Some(location)]
  IN IF getCurrentProvider(w) = Null
       THEN showNoData(w0, NoProviderMessage)
       ELSE LET w1 == emit([w0 EXCEPT !.state.loading = TRUE,
                                      !.state.error = None],
                           "locationchange")
                w2 == viewerShowLoading(w1, "Loading street view...")
                w3 == IF w2.marker # Null /\ w2.map
                        THEN [w2 EXCEPT !.marker =
                                Some([Val(@) EXCEPT !.onMap = TRUE,
                                                    !.lngLat = Some(location)])]
                        ELSE w2
            IN [w3 EXCEPT !.lookups =
                  Append(@, [kind |-> "show", provider |-> p,
                             location |-> location, stage |-> "point",
                             idx |-> 0, radius |-> DefaultQueryRadius])]

\* The synchronous part: up to the first request of queryImagery.
showStreetViewStart(w, location) ==
  LET p == w.state.activeProvider
  IN IF getCurrentProvider(w) = Null
       THEN showNoData(w, NoProviderMessage)
       ELSE LET w1 == emit([w EXCEPT !.state.location = Some(location),
                                     !.state.loading = TRUE,
                                     !.state.error = None],
                           "locationchange")
                w2 == viewerShowLoading(w1, "Loading street view...")
                w3 == IF w2.marker # Null /\ w2.map
                        THEN [w2 EXCEPT !.marker =
                                Some([Val(@) EXCEPT !.onMap = TRUE,
                                                    !.lngLat = Some(location)])]
                        ELSE w2
            IN [w3 EXCEPT !.lookups =
                  Append(@, [kind |-> "show", provider |-> p,
                             location |-> location, stage |-> "point",
                             idx |-> 0, radius |-> DefaultQueryRadius])]

\* Variant whose catch block reports the error in the viewer only.
showStreetViewCatchSilent(w, message) ==
  showNoData([w EXCEPT !.state.loading = FALSE, !.state.error = message],
             message)

\* The catch block of showStreetView.
showStreetViewCatch(w, message) ==
  LET w1 == [w EXCEPT !.state.loading = FALSE, !.state.error = message]
  IN emit(showNoData(w1, message), "error")

\* Variant that drops a result whose request is no longer the latest one:
\* the guard against overlapping lookups that showStreetView does not have.
showStreetViewFoundUnlessStale(w, p, imagery, throws) ==
  IF w.state.location # Some(imagery.location)
    THEN [w EXCEPT !.state.loading = FALSE]
    ELSE LET w1 == [w EXCEPT !.state.imagery = Some(imagery),
                             !.state.loading = FALSE]
             shown == viewerDisplayImagery(markerShowImagery(w1, imagery),
                                           p, imagery, throws)
         IN IF shown.threw
              THEN showStreetViewCatch(shown.w, RenderFailedMessage)
              ELSE emit(shown.w, "load")

\* The branch of showStreetView that found imagery.
showStreetViewFound(w, p, imagery, throws) ==
  LET w1 == [w EXCEPT !.state.imagery = Some(imagery),
                      !.state.loading = FALSE]
      shown == viewerDisplayImagery(markerShowImagery(w1, imagery),
                                    p, imagery, throws)
  IN IF shown.threw
       THEN showStreetViewCatch(shown.w, RenderFailedMessage)
       ELSE emit(shown.w, "load")

\* Variant that forgets to reset loading when nothing is found.
showStreetViewMissKeepsLoading(w) ==
  showNoData(w, None)

\* The branch of showStreetView that found nothing.
showStreetViewMiss(w) ==
  showNoData([w EXCEPT !.state.loading = FALSE], None)

\* ------------------------------------------------- lookups awaiting a reply
RemoveAt(s, i) == SubSeq(s, 1, i - 1) \o SubSeq(s, i + 1, Len(s))

lookupMaxRadius(w, l) ==
  IF l.kind = "show" THEN w.options.maxSearchRadius ELSE SearchNearbyRadius

\* findNearestImagery after one more empty reply: the lookup waiting for its
\* next query, or Null when the search returns null.
nearestAdvance(w, l) ==
  LET nextIdx == IF l.stage = "point" THEN 1 ELSE l.idx + 1
      nextRadius == NearestNextRadius(l.provider, lookupMaxRadius(w, l),
                                      nextIdx)
  IN IF nextRadius = 0 THEN Null
     ELSE Some([l EXCEPT !.stage = "nearest", !.idx = nextIdx,
                         !.radius = nextRadius])

\* showStreetView resumed by the settlement of its outstanding query.
showStreetViewResume(w, i, settlement, throws) ==
  LET l == w.lookups[i]
      done == [w EXCEPT !.lookups = RemoveAt(@, i)]
  IN IF settlement.rejected
       THEN emit(showStreetViewCatch(done, RequestFailedMessage),
                 "statechange")
     ELSE IF settlement.value # Null
       THEN emit(showStreetViewFound(done, l.provider, Val(settlement.value),
                                     throws),
                 "statechange")
     ELSE LET searching(x) == IF l.stage = "point"
                                THEN viewerShowLoading(x, "Searching nearby...")
                                ELSE x
              next == nearestAdvance(w, l)
          IN IF next # Null
               THEN [searching(w) EXCEPT !.lookups[i] = Val(next)]
               ELSE emit(showStreetViewMiss(searching(done)), "statechange")

\* -------------------------------------------------------------- searchNearest
searchNearestStart(w) ==
  IF w.state.location = Null \/ getCurrentProvider(w) = Null THEN w
  ELSE LET p == w.state.activeProvider
           w1 == noDataShow(w, "searching", None, TRUE)
       IN [w1 EXCEPT !.lookups =
             Append(@, [kind |-> "search", provider |-> p,
                        location |-> Val(w.state.location),
                        stage |-> "nearest", idx |-> 1,
                        radius |-> NearestNextRadius(p, SearchNearbyRadius,
                                                     1)])]

searchNearestFound(w, p, imagery, throws) ==
  LET w1 == markerShowImagery([w EXCEPT !.state.imagery = Some(imagery)],
                              imagery)
      shown == viewerDisplayImagery([w1 EXCEPT !.noDataMessage = Null],
                                    p, imagery, throws)
  IN IF shown.threw
       THEN noDataShow(shown.w, "error", RenderFailedMessage, FALSE)
       ELSE emit(shown.w, "load")

searchNearestResume(w, i, settlement, throws) ==
  LET l == w.lookups[i]
      done == [w EXCEPT !.lookups = RemoveAt(@, i)]
  IN IF settlement.rejected
       THEN emit(noDataShow(done, "error", RequestFailedMessage, FALSE),
                 "statechange")
     ELSE IF settlement.value # Null
       THEN emit(searchNearestFound(done, l.provider, Val(settlement.value),
                                    throws),
                 "statechange")
     ELSE LET next == nearestAdvance(w, l)
          IN IF next # Null
               THEN [w EXCEPT !.lookups[i] = Val(next)]
               ELSE emit(noDataShow(done, "notfound", None, FALSE),
                         "statechange")

\* ------------------------------------------------------------ other methods
clearStreetView(w) ==
  LET w1 == viewerShowInitialState(
              [w EXCEPT !.state.location = Null, !.state.imagery = Null,
                        !.state.heading = 0, !.state.error = None])
      w2 == IF w1.marker = Null THEN w1
            ELSE [w1 EXCEPT !.marker = Some([Val(@) EXCEPT !.onMap = FALSE])]
  IN emit([w2 EXCEPT !.noDataMessage = Null], "statechange")

\* ProviderTabs.setActive: a disabled tab never receives the active class.
tabsSetActive(w, p) ==
  IF w.tabs = Null THEN w
  ELSE LET t == Val(w.tabs)
       IN IF t.activeProvider = p THEN w
          ELSE IF p \in t.enabled
            THEN [w EXCEPT !.tabs =
                    Some([t EXCEPT
                            !.activeClass = (@ \ {t.activeProvider}) \cup {p},
                            !.activeProvider = p])]
            ELSE [w EXCEPT !.tabs =
                    Some([t EXCEPT !.activeClass = @ \ {t.activeProvider}])]

\* Variant that switches the provider without looking the location up again.
setProviderNoRequery(w, p) ==
  IF w.state.activeProvider = p THEN w
  ELSE LET w1 == tabsSetActive([w EXCEPT !.state.activeProvider = p], p)
       IN emit(emit(w1, "providerchange"), "statechange")

setProvider(w, p) ==
  IF w.state.activeProvider = p THEN w
  ELSE LET w1 == tabsSetActive([w EXCEPT !.state.activeProvider = p], p)
           w2 == IF w1.state.location # Null
                   THEN showStreetViewStart(w1, Val(w1.state.location))
                   ELSE viewerShowInitialState(w1)
       IN emit(emit(w2, "providerchange"), "statechange")

panelSetExpanded(w, expanded) ==
  IF w.panel = Null THEN w
  ELSE [w EXCEPT !.panel = Some([Val(@) EXCEPT !.expanded = expanded])]

\* Variant that expands without announcing it.
expandSilently(w) ==
  IF ~w.state.collapsed THEN w
  ELSE emit(panelSetExpanded([w EXCEPT !.state.collapsed = FALSE], TRUE),
            "statechange")

expand(w) ==
  IF ~w.state.collapsed THEN w
  ELSE emit(emit(panelSetExpanded([w EXCEPT !.state.collapsed = FALSE], TRUE),
                 "expand"),
            "statechange")

collapse(w) ==
  IF w.state.collapsed THEN w
  ELSE emit(emit(panelSetExpanded([w EXCEPT !.state.collapsed = TRUE], FALSE),
                 "collapse"),
            "statechange")

toggle(w) == IF w.state.collapsed THEN expand(w) ELSE collapse(w)

\* Variant that handles clicks while collapsed too.
handleMapClickAlways(w, location) == showStreetViewStart(w, location)

handleMapClick(w, location) ==
  IF w.state.collapsed THEN w ELSE showStreetViewStart(w, location)

\* --------------------------------------------------------------- lifecycle
onAdd(w) ==
  LET w1 == [w EXCEPT
               !.map = TRUE,
               !.panel = Some([expanded |-> FALSE]),
               !.tabs = Some([activeProvider |-> w.state.activeProvider,
                              activeClass |-> {w.state.activeProvider},
                              enabled |-> getAvailableProviders(w)]),
               !.viewer = Some([initial |-> TRUE, loading |-> None,
                                currentProvider |-> None])]
      w2 == IF ~w1.state.collapsed THEN expand(w1) ELSE w1
  IN IF w2.options.showMarker
       THEN [w2 EXCEPT !.marker = Some([onMap |-> FALSE, lngLat |-> Null,
                                        heading |-> 0])]
       ELSE w2

\* Variant that leaves the subscriptions in place.
onRemoveKeepsHandlers(w) ==
  LET w1 == viewerClearContent(w)
      w2 == IF w1.googleProvider # Null
              THEN providerDestroy(w1, "google") ELSE w1
      w3 == IF w2.mapillaryProvider # Null
              THEN providerDestroy(w2, "mapillary") ELSE w2
  IN [w3 EXCEPT !.map = FALSE, !.panel = Null, !.tabs = Null,
                !.viewer = Null, !.noDataMessage = Null, !.marker = Null,
                !.dropped = @ \cup w.eventHandlers]

onRemove(w) ==
  LET w1 == viewerClearContent(w)
      w2 == IF w1.googleProvider # Null
              THEN providerDestroy(w1, "google") ELSE w1
      w3 == IF w2.mapillaryProvider # Null
              THEN providerDestroy(w2, "mapillary") ELSE w2
  IN [w3 EXCEPT !.map = FALSE, !.panel = Null, !.tabs = Null,
                !.viewer = Null, !.noDataMessage = Null, !.marker = Null,
                !.eventHandlers = {}, !.dropped = @ \cup w.eventHandlers]

\* ------------------------------------------------------------ configuration
\* The README quick-start configuration; one with every other option set
\* the other way; and one for each provider left without its credential,
\* the second of them with the largest search radius a provider tries.
Baseline ==
  [collapsed |-> TRUE, defaultProvider |-> "google", googleApiKey |-> "key",
   mapillaryAccessToken |-> "token", maxSearchRadius |-> 100,
   showMarker |-> TRUE, clickToView |-> TRUE,
   panelWidth |-> 400, panelHeight |-> 300]

Alternate ==
  [collapsed |-> FALSE, defaultProvider |-> "mapillary",
   googleApiKey |-> "key", mapillaryAccessToken |-> "token",
   maxSearchRadius |-> 30, showMarker |-> FALSE, clickToView |-> FALSE,
   panelWidth |-> 400, panelHeight |-> 300]

Configs ==
  {Baseline,
   Alternate,
   [Alternate EXCEPT !.googleApiKey = "", !.defaultProvider = "google",
                     !.clickToView = TRUE],
   [Alternate EXCEPT !.mapillaryAccessToken = "",
                     !.maxSearchRadius = SearchNearbyRadius]}

NewProvider == Some([rendered |-> Null, headingCallbacks |-> {}])

NoLast ==
  [emitted |-> <<>>, invoked |-> <<>>, heading |-> Null, query |-> Null]

\* A provider used on its own: the call under way, the queries it has issued
\* with their replies, and what it returned.
IdleSearch == [status |-> "idle", op |-> None, provider |-> "google",
               maxRadius |-> 0, idx |-> 0, radius |-> 0, queries |-> <<>>,
               result |-> Null]

\* ------------------------------------------------------- the panel's size
\* The panel with the drag state of its resize handle.  placed: button and
\* map container are stored; listening: its event listeners are registered;
\* resized: the size last handed to the onResize callback.  The element's
\* left and top are not part of the model: no size depends on them.
WidthMargin == 40
HeightMargin == 80
DefaultPanelWidth == 400
DefaultPanelHeight == 300
DefaultMinPanelWidth == 300
DefaultMinPanelHeight == 200

MathMax(a, b) == IF a >= b THEN a ELSE b
MathMin(a, b) == IF a <= b THEN a ELSE b

NewPanel(width, height, position) ==
  [width |-> width, height |-> height,
   minWidth |-> DefaultMinPanelWidth, minHeight |-> DefaultMinPanelHeight,
   position |-> position, isResizing |-> FALSE,
   startX |-> 0, startY |-> 0, startWidth |-> 0, startHeight |-> 0,
   placed |-> FALSE, visible |-> FALSE, listening |-> TRUE, resized |-> Null]

\* getMaxDimensions, given the map container's rectangle and the window's
\* inner size at the time of the call.
getMaxDimensions(p, rect, window) ==
  IF p.placed
    THEN [maxWidth |-> rect.width - WidthMargin,
          maxHeight |-> rect.height - HeightMargin]
    ELSE [maxWidth |-> window.width - WidthMargin,
          maxHeight |-> window.height - HeightMargin]

setSize(p, width, height) == [p EXCEPT !.width = width, !.height = height]

onResizeStart(p, x, y) ==
  [p EXCEPT !.isResizing = TRUE, !.startX = x, !.startY = y,
            !.startWidth = p.width, !.startHeight = p.height]

onResizeMove(p, x, y, rect, window) ==
  IF ~p.isResizing THEN p
  ELSE LET deltaX == x - p.startX
           deltaY == y - p.startY
           newWidth == IF p.position \in {"top-right", "bottom-right"}
                         THEN p.startWidth - deltaX
                         ELSE p.startWidth + deltaX
           newHeight == IF p.position \in {"bottom-left", "bottom-right"}
                          THEN p.startHeight - deltaY
                          ELSE p.startHeight + deltaY
           max == getMaxDimensions(p, rect, window)
       IN setSize(p,
                  MathMax(p.minWidth, MathMin(max.maxWidth, newWidth)),
                  MathMax(p.minHeight, MathMin(max.maxHeight, newHeight)))

\* Variant that hands the size over and goes on resizing.
onResizeEndKeepsResizing(p) ==
  IF ~p.isResizing THEN p
  ELSE [p EXCEPT !.resized = Some([width |-> p.width, height |-> p.height])]

onResizeEnd(p) ==
  IF ~p.isResizing THEN p
  ELSE [p EXCEPT !.isResizing = FALSE,
                 !.resized = Some([width |-> p.width, height |-> p.height])]

updatePosition(p, rect, window) ==
  IF ~p.placed THEN p
  ELSE LET max == getMaxDimensions(p, rect, window)
           constrainedWidth == MathMin(p.width, max.maxWidth)
           constrainedHeight == MathMin(p.height, max.maxHeight)
       IN IF constrainedWidth # p.width \/ constrainedHeight # p.height
            THEN setSize(p, constrainedWidth, constrainedHeight)
            ELSE p

positionRelativeTo(p, rect, window) ==
  updatePosition([p EXCEPT !.placed = TRUE], rect, window)

handleWindowResize(p, rect, window) ==
  IF p.visible THEN updatePosition(p, rect, window) ELSE p

panelDestroy(p) == [p EXCEPT !.placed = FALSE, !.listening = FALSE]

\* The onResize callback the control gives its panel.
onResize(opts, width, height) ==
  [opts EXCEPT !.panelWidth = width, !.panelHeight = height]

\* ------------------------------------- a provider's callbacks, on its own
\* emitHeadingChange: how many times the loop over the subscribed callbacks
\* calls each callback, and with which heading.
Invocations(provider, heading) ==
  [callback \in HeadingCallbacks |->
     IF callback \in provider.headingCallbacks
       THEN [times |-> 1, heading |-> Some(heading)]
       ELSE [times |-> 0, heading |-> Null]]

NoInvocations ==
  [callback \in HeadingCallbacks |-> [times |-> 0, heading |-> Null]]

\* standalone: the provider, the calls made on it since construction, and
\* the callback invocations of the last call.
NewStandalone(p) ==
  [name |-> p, provider |-> Val(NewProvider), calls |-> <<>>,
   invoked |-> NoInvocations]

Call(op, callback, heading) ==
  [op |-> op, callback |-> callback, heading |-> heading]

\* The standalone provider after a call that left it as provider and invoked
\* the callbacks as given.
After(st, provider, call, invoked) ==
  [st EXCEPT !.provider = provider, !.calls = Append(@, call),
             !.invoked = invoked]

\* ------------------------------------------------------ useStreetViewState
DEFAULT_STATE ==
  [collapsed |-> TRUE, activeProvider |-> "google", location |-> Null,
   imagery |-> Null, heading |-> 0, pitch |-> 0, loading |-> FALSE,
   error |-> None]

\* { ...base, ...partial }
Spread(base, partial) ==
  [field \in DOMAIN base |->
     IF field \in DOMAIN partial THEN partial[field] ELSE base[field]]

NoInitialState == [field \in {} |-> Null]

\* Variant whose reset forgets the initial values passed to the hook.
hookResetToDefault(h) == [h EXCEPT !.state = DEFAULT_STATE]

\* Variant whose toggle also clears the heading.
hookToggleClears(h) ==
  [h EXCEPT !.state = [@ EXCEPT !.collapsed = ~@, !.heading = 0]]

\* The hook's value after the first render: op and before record the last
\* call made through it and the state that call found.
useStreetViewState(initialState) ==
  [initialState |-> initialState, state |-> Spread(DEFAULT_STATE, initialState),
   op |-> None, before |-> DEFAULT_STATE]

\* setState((prev) => ({ ...prev, [field]: value }))
hookSet(h, field, value) ==
  [h EXCEPT !.state = Spread(@, [f \in {field} |-> value])]

\* The hook after a call of one of the functions it returns.
Called(h, op) == [h EXCEPT !.op = op, !.before = hook.state]

hookToggle(h) == [h EXCEPT !.state = [@ EXCEPT !.collapsed = ~@]]

hookExpand(h) == hookSet(h, "collapsed", FALSE)

hookCollapse(h) == hookSet(h, "collapsed", TRUE)

hookReset(h) == [h EXCEPT !.state = Spread(DEFAULT_STATE, h.initialState)]

\* ------------------------------------------------------ utility functions
\* helper: the last call of a utility function, with what it was given and
\* what it returned.
NoHelperCall == [fn |-> None, input |-> Null, output |-> Null]

\* A JavaScript truthiness test of a credential: null (None) and '' fail.
Truthy(credential) == credential # None /\ credential # ""

\* Variant that takes a credential for enough, enabled or not.
useStreetViewProviderIgnoresEnabled(config) ==
  LET availableProviders ==
        (IF Truthy(config.google.apiKey) THEN <<"google">> ELSE <<>>)
        \o (IF Truthy(config.mapillary.accessToken)
              THEN <<"mapillary">> ELSE <<>>)
  IN [availableProviders |-> availableProviders,
      isProviderAvailable |->
        [p \in ProviderTypes |->
           \E i \in 1..Len(availableProviders) : availableProviders[i] = p],
      getDefaultProvider |->
        IF Len(availableProviders) > 0 THEN availableProviders[1] ELSE None,
      hasAnyProvider |-> Len(availableProviders) > 0]

\* useStreetViewProvider(config): the values it returns; the two functions
\* among them as their results (None for null).
useStreetViewProvider(config) ==
  LET availableProviders ==
        (IF config.google.enabled /\ Truthy(config.google.apiKey)
           THEN <<"google">> ELSE <<>>)
        \o (IF config.mapillary.enabled /\ Truthy(config.mapillary.accessToken)
              THEN <<"mapillary">> ELSE <<>>)
  IN [availableProviders |-> availableProviders,
      isProviderAvailable |->
        [p \in ProviderTypes |->
           \E i \in 1..Len(availableProviders) : availableProviders[i] = p],
      getDefaultProvider |->
        IF Len(availableProviders) > 0 THEN availableProviders[1] ELSE None,
      hasAnyProvider |-> Len(availableProviders) > 0]

\* A JavaScript value passed as a query parameter: its type and String(value).
JsValue(type, text) == [type |-> type, text |-> text]

\* URLSearchParams.set: the first parameter named key takes the value and the
\* later ones of that name go; without one the parameter is appended.
RECURSIVE WithoutKey(_, _)
WithoutKey(query, key) ==
  IF query = <<>> THEN <<>>
  ELSE IF Head(query).key = key THEN WithoutKey(Tail(query), key)
       ELSE <<Head(query)>> \o WithoutKey(Tail(query), key)

RECURSIVE searchParamsSet(_, _, _)
searchParamsSet(query, key, text) ==
  IF query = <<>> THEN <<[key |-> key, value |-> text]>>
  ELSE IF Head(query).key = key
         THEN <<[key |-> key, value |-> text]>> \o WithoutKey(Tail(query), key)
         ELSE <<Head(query)>> \o searchParamsSet(Tail(query), key, text)

\* The loop of buildUrl over the entries of params, in their order: every
\* value but the skipped ones is set.
RECURSIVE setEntries(_, _, _)
setEntries(url, params, skipped) ==
  IF params = <<>> THEN url
  ELSE LET entry == Head(params)
       IN setEntries(
            IF entry.value \notin skipped
              THEN [url EXCEPT !.query =
                      searchParamsSet(@, entry.key, entry.value.text)]
              ELSE url,
            Tail(params), skipped)

\* Variant that also sets the parameters whose value is the empty string.
buildUrlKeepsEmpty(url, params) ==
  setEntries(url, params,
             {JsValue("undefined", "undefined"), JsValue("null", "null")})

\* buildUrl(baseUrl, params): url is new URL(baseUrl).
buildUrl(url, params) ==
  setEntries(url, params,
             {JsValue("undefined", "undefined"), JsValue("null", "null"),
              JsValue("string", "")})

\* calculateDistance for points of one meridian, a location being its
\* latitude in steps: the distance grows with the difference.
calculateDistance(from, to) == IF from >= to THEN from - to ELSE to - from

\* Variant whose scan lets a later point at the same distance win.
RECURSIVE findClosestFromLastWins(_, _, _, _, _)
findClosestFromLastWins(target, points, i, closest, minDistance) ==
  IF i > Len(points) THEN closest
  ELSE LET distance == calculateDistance(target, points[i].location)
       IN IF distance <= minDistance
            THEN findClosestFromLastWins(target, points, i + 1, points[i], distance)
            ELSE findClosestFromLastWins(target, points, i + 1, closest, minDistance)

\* The loop of findClosestPoint from index i on.
RECURSIVE findClosestFrom(_, _, _, _, _)
findClosestFrom(target, points, i, closest, minDistance) ==
  IF i > Len(points) THEN closest
  ELSE LET distance == calculateDistance(target, points[i].location)
       IN IF distance < minDistance
            THEN findClosestFrom(target, points, i + 1, points[i], distance)
            ELSE findClosestFrom(target, points, i + 1, closest, minDistance)

\* Variant with that scan.
findClosestPointLastWins(target, points) ==
  IF Len(points) = 0 THEN Null
  ELSE Some(findClosestFromLastWins(target, points, 2, points[1],
              calculateDistance(target, points[1].location)))

findClosestPoint(target, points) ==
  IF Len(points) = 0 THEN Null
  ELSE Some(findClosestFrom(target, points, 2, points[1],
                            calculateDistance(target, points[1].location)))

\* A wrapper made by debounce or throttle: its delay (or limit), the clock,
\* the calls made through it, the timers it has pending, its closure
\* variables timeoutId and inThrottle, and the invocations of fn.
NoWrapper ==
  [kind |-> None, delay |-> 0, now |-> 0, calls |-> <<>>, timers |-> {},
   timeoutId |-> Null, inThrottle |-> FALSE, invoked |-> <<>>]

NewWrapper(kind, delay) == [NoWrapper EXCEPT !.kind = kind, !.delay = delay]

\* The call made now through the wrapper, and the timer it would set: each
\* is numbered by the call.
CallNow(w, args) == [time |-> w.now, args |-> args]
TimerOf(w, args) ==
  [id |-> Len(w.calls) + 1, due |-> w.now + w.delay, args |-> args]

\* Variant that leaves the pending timer running.
debouncedKeepsTimer(w, args) ==
  [w EXCEPT !.calls = Append(@, CallNow(w, args)),
            !.timers = @ \cup {TimerOf(w, args)},
            !.timeoutId = Some(TimerOf(w, args).id)]

\* The function debounce returns, called with args.
debounced(w, args) ==
  [w EXCEPT !.calls = Append(@, CallNow(w, args)),
            !.timers = (IF w.timeoutId # Null
                          THEN {t \in @ : t.id # Val(w.timeoutId)}
                          ELSE @) \cup {TimerOf(w, args)},
            !.timeoutId = Some(TimerOf(w, args).id)]

\* The timer callback of debounce.
debounceTimeout(w, timer) ==
  [w EXCEPT !.timers = @ \ {timer},
            !.invoked = Append(@, [time |-> w.now, args |-> timer.args,
                                   call |-> timer.id]),
            !.timeoutId = Null]

\* Variant that never closes the gate.
throttledUngated(w, args) ==
  [w EXCEPT !.calls = Append(@, CallNow(w, args)),
            !.invoked = Append(@, [time |-> w.now, args |-> args,
                                   call |-> Len(w.calls) + 1]),
            !.timers = @ \cup {TimerOf(w, args)}]

\* The function throttle returns, called with args.
throttled(w, args) ==
  IF ~w.inThrottle
    THEN [w EXCEPT !.calls = Append(@, CallNow(w, args)),
                   !.invoked = Append(@, [time |-> w.now, args |-> args,
                                          call |-> Len(w.calls) + 1]),
                   !.inThrottle = TRUE,
                   !.timers = @ \cup {TimerOf(w, args)}]
    ELSE [w EXCEPT !.calls = Append(@, CallNow(w, args))]

\* The timer callback of throttle.
throttleTimeout(w, timer) ==
  [w EXCEPT !.timers = @ \ {timer}, !.inThrottle = FALSE]

\* The objects above as they stand while another part is exercised.
\* ------------------------------------------------- getState and its caller
\* Objects by reference.  heap[1] is the control's _state object; every
\* later object is a record getState returned or emit delivered in event
\* data.  held: for each of them its reference, the state at the moment it
\* was made, and whether its holder has assigned to one of its fields.
NoCaller == [heap |-> <<>>, held |-> <<>>]

OwnState == 1

\* Variant that hands out the _state object itself.
getStateShared(heap) == [heap |-> heap, ref |-> OwnState]

\* getState: { ...this._state }, a new object with the fields' values.
getState(heap) ==
  [heap |-> Append(heap, heap[OwnState]), ref |-> Len(heap) + 1]

\* obj.field = value
Assign(heap, ref, field, value) ==
  [heap EXCEPT ![ref] = [@ EXCEPT ![field] = value]]

\* The subscriptions of a control taken by themselves: the Map, the calls
\* made on the control since construction, and the handlers the last call
\* invoked.
NoSubscriber == [eventHandlers |-> {}, calls |-> <<>>, invoked |-> <<>>]

Aside ==
  /\ subscriber = NoSubscriber
  /\ caller = NoCaller
  /\ resizable = NewPanel(DefaultPanelWidth, DefaultPanelHeight, "top-right")
  /\ standalone = NewStandalone("google")
  /\ hook = useStreetViewState(NoInitialState)
  /\ helper = NoHelperCall
  /\ wrapper = NoWrapper

Constructed(opts) ==
  /\ options = opts
  /\ state = [collapsed |-> opts.collapsed,
              activeProvider |-> opts.defaultProvider,
              location |-> Null, imagery |-> Null, heading |-> 0,
              pitch |-> 0, loading |-> FALSE, error |-> None]
  /\ map = FALSE
  /\ panel = Null
  /\ tabs = Null
  /\ viewer = Null
  /\ noDataMessage = Null
  /\ marker = Null
  /\ googleProvider = IF opts.googleApiKey # "" THEN NewProvider ELSE Null
  /\ mapillaryProvider =
       IF opts.mapillaryAccessToken # "" THEN NewProvider ELSE Null
  /\ lookups = <<>>
  /\ issued = 0
  /\ last = NoLast
  /\ eventHandlers = {}
  /\ dropped = {}

Init ==
  /\ \E opts \in Configs : Constructed(opts)
  /\ search = IdleSearch
  /\ Aside

\* A step of the control: the world the handler leaves, and its record.  A
\* handler that returns early without any effect leaves every variable as
\* it was.  issued counts the lookups started so far.
Step(w, heading, query) ==
  IF w = World /\ heading = Null /\ query = Null
    THEN UNCHANGED vars
    ELSE /\ state' = w.state
         /\ map' = w.map
         /\ panel' = w.panel
         /\ tabs' = w.tabs
         /\ viewer' = w.viewer
         /\ noDataMessage' = w.noDataMessage
         /\ marker' = w.marker
         /\ googleProvider' = w.googleProvider
         /\ mapillaryProvider' = w.mapillaryProvider
         /\ lookups' = w.lookups
         /\ issued' = IF Len(w.lookups) > Len(lookups)
                        THEN issued + 1 ELSE issued
         /\ issued' <= MaxLookups
         /\ last' = [emitted |-> w.emitted, invoked |-> w.invoked,
                     heading |-> heading, query |-> query]
         /\ eventHandlers' = w.eventHandlers
         /\ dropped' = w.dropped
         /\ UNCHANGED <<options, search, resizable, standalone, hook,
                       helper, wrapper, subscriber, caller>>

\* ------------------------------------------------------------------ actions
OnAdd == ~map /\ Step(onAdd(World), Null, Null)

OnRemove == map /\ Step(onRemove(World), Null, Null)

Expand ==
  /\ Step(expand(World), Null, Null)

Collapse ==
  /\ Step(collapse(World), Null, Null)

Toggle ==
  /\ Step(toggle(World), Null, Null)

ToggleButtonClick == map /\ Step(toggle(World), Null, Null)

CloseButtonClick ==
  /\ panel # Null
  /\ Step(collapse(World), Null, Null)

MapClick ==
  /\ map /\ options.clickToView
  /\ \E location \in Locations :
       Step(handleMapClick(World, location), Null, Null)

ShowStreetView ==
  /\ \E location \in Locations :
       Step(showStreetViewStart(World, location), Null, Null)

ClearStreetView ==
  /\ Step(clearStreetView(World), Null, Null)

SetProvider ==
  /\ \E p \in ProviderTypes :
       Step(setProvider(World, p), Null, Null)

TabClick ==
  /\ tabs # Null
  /\ \E p \in Val(tabs).enabled :
       Step(setProvider(tabsSetActive(World, p), p), Null, Null)

SearchNearbyClick ==
  /\ noDataMessage # Null
  /\ Val(noDataMessage).attached
  /\ ~Val(noDataMessage).buttonDisabled
  /\ Step(searchNearestStart(World), Null, Null)

\* The reply to the outstanding request of lookup i arrives.
QueryResolve ==
  /\ \E i \in 1..Len(lookups), outcome \in FetchOutcomes :
       LET l == lookups[i]
           found == outcome = "found"
       IN \E heading \in IF found /\ l.provider = "mapillary"
                           THEN CompassAngles ELSE {Null},
             throws \in IF found /\ l.provider = "mapillary" /\ viewer # Null
                          THEN BOOLEAN ELSE {FALSE} :
            LET settlement == queryImagery(l.provider, l.location, outcome,
                                           heading)
                w == IF l.kind = "show"
                       THEN showStreetViewResume(World, i, settlement, throws)
                       ELSE searchNearestResume(World, i, settlement, throws)
            IN Step(w, Null,
                    Some([kind |-> l.kind,
                          failed |-> fetchJson(outcome).rejected,
                          settlement |-> settlement, threw |-> throws,
                          settled |-> Len(w.lookups) < Len(lookups)]))

\* The MapillaryJS viewer reports a bearing change.
MapillaryBearing ==
  /\ mapillaryProvider # Null
  /\ Val(mapillaryProvider).rendered # Null
  /\ \E heading \in ReportedHeadings :
       Step(emitHeadingChange(World, "mapillary", heading),
            Some([provider |-> "mapillary", heading |-> heading]), Null)

\* GoogleStreetViewProvider.setHeading on the control's provider.
GoogleSetHeading ==
  /\ googleProvider # Null
  /\ Val(googleProvider).rendered # Null
  /\ \E heading \in RequestedHeadings :
       Step(emitHeadingChange(World, "google", heading),
            Some([provider |-> "google", heading |-> heading]), Null)

Next ==
  \/ OnAdd
  \/ OnRemove
  \/ Expand
  \/ Collapse
  \/ Toggle
  \/ ToggleButtonClick
  \/ CloseButtonClick
  \/ MapClick
  \/ ShowStreetView
  \/ ClearStreetView
  \/ SetProvider
  \/ TabClick
  \/ SearchNearbyClick
  \/ QueryResolve
  \/ MapillaryBearing
  \/ GoogleSetHeading

Spec == Init /\ [][Next]_vars

\* ------------------------------------------------- a provider on its own
\* The maxRadius arguments and point-query radii tried: below, at, between
\* and above the entries of the radius lists.
SearchRadii == {0, 30, 49, 50, 99, 100, 199, 200, 250, 499, 500, 1000}
QueryRadii == {50, 500}
ProbePoint == CHOOSE point \in Locations : TRUE

controlVars == <<options, state, map, panel, tabs, viewer, noDataMessage,
                 marker, googleProvider, mapillaryProvider, lookups, issued,
                 last, eventHandlers, dropped>>

InitProvider == Constructed(Baseline) /\ search = IdleSearch /\ Aside

\* provider.queryImagery(point, radius) is called.
QueryImageryCall ==
  /\ search.status = "idle"
  /\ \E p \in ProviderTypes, radius \in QueryRadii :
       search' = [IdleSearch EXCEPT !.status = "waiting", !.op = "query",
                                    !.provider = p, !.radius = radius]
  /\ UNCHANGED <<controlVars, resizable, standalone, hook, helper, wrapper,
                 subscriber, caller>>

\* provider.findNearestImagery(point, maxRadius) is called: it runs up to its
\* first query, or returns null without one.
FindNearestCall ==
  /\ search.status = "idle"
  /\ \E p \in ProviderTypes, maxRadius \in SearchRadii :
       LET first == NearestNextRadius(p, maxRadius, 1)
       IN search' = [IdleSearch EXCEPT
                       !.status = IF first = 0 THEN "returned" ELSE "waiting",
                       !.op = "nearest", !.provider = p,
                       !.maxRadius = maxRadius, !.idx = 1, !.radius = first]
  /\ UNCHANGED <<controlVars, resizable, standalone, hook, helper, wrapper,
                 subscriber, caller>>

\* The reply to the outstanding request arrives: queryImagery settles, and
\* the caller runs to its next request or to its end.
ProviderReply ==
  /\ search.status = "waiting"
  /\ \E outcome \in FetchOutcomes :
       \E heading \in IF outcome = "found" /\ search.provider = "mapillary"
                        THEN CompassAngles ELSE {Null} :
         LET settlement == queryImagery(search.provider, ProbePoint, outcome,
                                        heading)
             asked == Append(search.queries,
                             [radius |-> search.radius, outcome |-> outcome,
                              settlement |-> settlement])
             next == NearestNextRadius(search.provider, search.maxRadius,
                                       search.idx + 1)
         IN search' =
              IF settlement.rejected
                THEN [search EXCEPT !.status = "rejected", !.queries = asked,
                                    !.radius = 0]
              ELSE IF settlement.value # Null \/ search.op = "query"
                        \/ next = 0
                THEN [search EXCEPT !.status = "returned", !.queries = asked,
                                    !.radius = 0,
                                    !.result = settlement.value]
              ELSE [search EXCEPT !.queries = asked, !.idx = @ + 1,
                                  !.radius = next]
  /\ UNCHANGED <<controlVars, resizable, standalone, hook, helper, wrapper,
                 subscriber, caller>>

\* The caller takes the result; the provider is ready for the next call.
ProviderReturn ==
  /\ search.status \in {"returned", "rejected"}
  /\ search' = IdleSearch
  /\ UNCHANGED <<controlVars, resizable, standalone, hook, helper, wrapper,
                 subscriber, caller>>

NextProvider ==
  \/ QueryImageryCall
  \/ FindNearestCall
  \/ ProviderReply
  \/ ProviderReturn

SpecProvider == InitProvider /\ [][NextProvider]_vars


\* --------------------------------------------------- the panel on its own
PanelSizes == {[width |-> 400, height |-> 300], [width |-> 300, height |-> 200]}
PanelPositions == {"top-right", "bottom-left"}
ContainerRects == {[width |-> 320, height |-> 260],
                   [width |-> 640, height |-> 480]}
WindowSizes == {[width |-> 640, height |-> 480]}
Pointers == {[x |-> 0, y |-> 0], [x |-> 150, y |-> 100]}

panelFrame ==
  <<controlVars, search, standalone, hook, helper, wrapper, subscriber,
    caller>>

InitPanel ==
  /\ search = IdleSearch
  /\ subscriber = NoSubscriber
  /\ caller = NoCaller
  /\ helper = NoHelperCall
  /\ wrapper = NoWrapper
  /\ standalone = NewStandalone("google")
  /\ hook = useStreetViewState(NoInitialState)
  /\ \E size \in PanelSizes, position \in PanelPositions :
       /\ Constructed([Baseline EXCEPT !.panelWidth = size.width,
                                       !.panelHeight = size.height])
       /\ resizable = NewPanel(size.width, size.height, position)

\* mousedown on the resize handle
HandleMouseDown ==
  /\ resizable.listening
  /\ \E pointer \in Pointers :
       resizable' = onResizeStart(resizable, pointer.x, pointer.y)
  /\ UNCHANGED panelFrame

\* mousemove on the document
DocumentMouseMove ==
  /\ resizable.listening
  /\ \E pointer \in Pointers, rect \in ContainerRects, window \in WindowSizes :
       resizable' = onResizeMove(resizable, pointer.x, pointer.y, rect, window)
  /\ UNCHANGED panelFrame

\* mouseup on the document; at the end of a drag the panel calls onResize.
DocumentMouseUp ==
  /\ resizable.listening
  /\ resizable' = onResizeEnd(resizable)
  /\ options' = IF resizable.isResizing
                  THEN onResize(options, resizable.width, resizable.height)
                  ELSE options
  /\ UNCHANGED <<state, map, panel, tabs, viewer, noDataMessage, marker,
                 googleProvider, mapillaryProvider, lookups, issued, last,
                 eventHandlers, dropped, search, standalone, hook, helper,
                 wrapper, subscriber, caller>>

\* resize of the window
WindowResize ==
  /\ resizable.listening
  /\ \E rect \in ContainerRects, window \in WindowSizes :
       resizable' = handleWindowResize(resizable, rect, window)
  /\ UNCHANGED panelFrame

PositionRelativeTo ==
  /\ \E rect \in ContainerRects, window \in WindowSizes :
       resizable' = positionRelativeTo(resizable, rect, window)
  /\ UNCHANGED panelFrame

PanelShow ==
  /\ resizable' = [resizable EXCEPT !.visible = TRUE]
  /\ UNCHANGED panelFrame

PanelHide ==
  /\ resizable' = [resizable EXCEPT !.visible = FALSE]
  /\ UNCHANGED panelFrame

PanelDestroy ==
  /\ resizable' = panelDestroy(resizable)
  /\ UNCHANGED panelFrame

NextPanel ==
  \/ HandleMouseDown
  \/ DocumentMouseMove
  \/ DocumentMouseUp
  \/ WindowResize
  \/ PositionRelativeTo
  \/ PanelShow
  \/ PanelHide
  \/ PanelDestroy

SpecPanel == InitPanel /\ [][NextPanel]_vars

\* ------------------------------------- a provider's callbacks, exercised
MaxCalls == 5
EmittedHeadings == {45}
RenderedHeadings == {Null, Some(90)}

callbacksFrame ==
  <<controlVars, search, resizable, hook, helper, wrapper, subscriber,
    caller>>

InitCallbacks ==
  /\ Constructed(Baseline)
  /\ search = IdleSearch
  /\ subscriber = NoSubscriber
  /\ caller = NoCaller
  /\ helper = NoHelperCall
  /\ wrapper = NoWrapper
  /\ resizable = NewPanel(DefaultPanelWidth, DefaultPanelHeight, "top-right")
  /\ hook = useStreetViewState(NoInitialState)
  /\ \E p \in ProviderTypes : standalone = NewStandalone(p)

OnHeadingChangeCall ==
  /\ Len(standalone.calls) < MaxCalls
  /\ \E callback \in HeadingCallbacks :
       standalone' = After(standalone,
                           onHeadingChange(standalone.provider, callback),
                           Call("onHeadingChange", callback, Null),
                           NoInvocations)
  /\ UNCHANGED callbacksFrame

OffHeadingChangeCall ==
  /\ Len(standalone.calls) < MaxCalls
  /\ \E callback \in HeadingCallbacks :
       standalone' = After(standalone,
                           offHeadingChange(standalone.provider, callback),
                           Call("offHeadingChange", callback, Null),
                           NoInvocations)
  /\ UNCHANGED callbacksFrame

\* emitHeadingChange(heading): a bearing event or a bearing promise of the
\* MapillaryJS viewer, GoogleStreetViewProvider.setHeading, or a direct call.
EmitHeadingChangeCall ==
  /\ Len(standalone.calls) < MaxCalls
  /\ \E heading \in EmittedHeadings :
       standalone' = After(standalone, standalone.provider,
                           Call("emitHeadingChange", None, Some(heading)),
                           Invocations(standalone.provider, heading))
  /\ UNCHANGED callbacksFrame

\* render(container, imagery); MapillaryProvider.render ends by emitting the
\* imagery's heading when it has one.
RenderCall ==
  /\ Len(standalone.calls) < MaxCalls
  /\ \E heading \in RenderedHeadings :
       LET imagery == [id |-> "image", heading |-> heading]
           rendered == render(standalone.provider, standalone.name, imagery)
       IN standalone' =
            After(standalone, rendered, Call("render", None, heading),
                  IF standalone.name = "mapillary" /\ heading # Null
                    THEN Invocations(rendered, Val(heading))
                    ELSE NoInvocations)
  /\ UNCHANGED callbacksFrame

DestroyCall ==
  /\ Len(standalone.calls) < MaxCalls
  /\ standalone' = After(standalone, destroy(standalone.provider),
                         Call("destroy", None, Null), NoInvocations)
  /\ UNCHANGED callbacksFrame

NextCallbacks ==
  \/ OnHeadingChangeCall
  \/ OffHeadingChangeCall
  \/ EmitHeadingChangeCall
  \/ RenderCall
  \/ DestroyCall

SpecCallbacks == InitCallbacks /\ [][NextCallbacks]_vars

\* --------------------------------------------- useStreetViewState in use
InitialStates ==
  {NoInitialState, [collapsed |-> FALSE],
   [collapsed |-> FALSE, activeProvider |-> "mapillary", heading |-> 90]}

\* The setters with one argument, the field each writes and the arguments
\* tried.
Setters ==
  [setCollapsed |-> [field |-> "collapsed", values |-> BOOLEAN],
   setProvider |-> [field |-> "activeProvider", values |-> ProviderTypes],
   setLocation |-> [field |-> "location", values |-> {Null, Some(ProbePoint)}],
   setImagery |-> [field |-> "imagery", values |-> {Null, Some("image")}],
   setHeading |-> [field |-> "heading", values |-> {0, 90}],
   setLoading |-> [field |-> "loading", values |-> BOOLEAN],
   setError |-> [field |-> "error", values |-> {None, "Error"}]]

RawStates == {[DEFAULT_STATE EXCEPT !.pitch = 10, !.loading = TRUE]}

hookFrame ==
  <<controlVars, search, resizable, standalone, helper, wrapper, subscriber,
    caller>>

InitHook ==
  /\ Constructed(Baseline)
  /\ search = IdleSearch
  /\ subscriber = NoSubscriber
  /\ caller = NoCaller
  /\ helper = NoHelperCall
  /\ wrapper = NoWrapper
  /\ resizable = NewPanel(DefaultPanelWidth, DefaultPanelHeight, "top-right")
  /\ standalone = NewStandalone("google")
  /\ \E initialState \in InitialStates : hook = useStreetViewState(initialState)

HookSetter ==
  /\ \E setter \in DOMAIN Setters :
       \E value \in Setters[setter].values :
          hook' = Called(hookSet(hook, Setters[setter].field, value), setter)
  /\ UNCHANGED hookFrame

HookSetState ==
  /\ \E raw \in RawStates : hook' = Called([hook EXCEPT !.state = raw], "setState")
  /\ UNCHANGED hookFrame

HookToggle ==
  /\ hook' = Called(hookToggle(hook), "toggle")
  /\ UNCHANGED hookFrame

HookExpand ==
  /\ hook' = Called(hookExpand(hook), "expand")
  /\ UNCHANGED hookFrame

HookCollapse ==
  /\ hook' = Called(hookCollapse(hook), "collapse")
  /\ UNCHANGED hookFrame

HookReset ==
  /\ hook' = Called(hookReset(hook), "reset")
  /\ UNCHANGED hookFrame

NextHook ==
  \/ HookSetter
  \/ HookSetState
  \/ HookToggle
  \/ HookExpand
  \/ HookCollapse
  \/ HookReset

SpecHook == InitHook /\ [][NextHook]_vars

\* ------------------------------------------- utility functions, applied
HeadingRange == 450
HeadingInputs == (0 - HeadingRange)..HeadingRange

Credentials == {None, "", "key"}
ProviderConfigs ==
  {[google |-> [enabled |-> ge, apiKey |-> gk],
    mapillary |-> [enabled |-> me, accessToken |-> mk]] :
     ge \in BOOLEAN, gk \in Credentials, me \in BOOLEAN, mk \in Credentials}

ParamKeys == {"key", "empty"}
ParamValues ==
  {JsValue("string", "value"), JsValue("string", ""), JsValue("null", "null"),
   JsValue("undefined", "undefined"), JsValue("number", "0"),
   JsValue("boolean", "false")}
ParamEntries == [key : ParamKeys, value : ParamValues]
ParamObjects ==
  {<<>>} \cup {<<e>> : e \in ParamEntries}
  \cup {<<e, f>> : e \in {g \in ParamEntries : g.key = "key"},
                   f \in {g \in ParamEntries : g.key = "empty"}}
BaseUrls ==
  {[origin |-> "https://example.com/api", query |-> <<>>],
   [origin |-> "https://example.com/api",
    query |-> <<[key |-> "empty", value |-> "1"]>>]}

MaxPoints == 3
Latitudes == 0..3
PointLists ==
  UNION {[1..n -> Latitudes] : n \in 0..MaxPoints}
WithIds(latitudes) ==
  [i \in 1..Len(latitudes) |-> [id |-> i, location |-> latitudes[i]]]

helperFrame ==
  <<controlVars, search, resizable, standalone, hook, wrapper, subscriber,
    caller>>

InitHelper ==
  /\ Constructed(Baseline)
  /\ search = IdleSearch
  /\ subscriber = NoSubscriber
  /\ caller = NoCaller
  /\ resizable = NewPanel(DefaultPanelWidth, DefaultPanelHeight, "top-right")
  /\ standalone = NewStandalone("google")
  /\ hook = useStreetViewState(NoInitialState)
  /\ wrapper = NoWrapper
  /\ helper = NoHelperCall

NormalizeHeadingCall ==
  /\ \E heading \in HeadingInputs :
       helper' = [fn |-> "normalizeHeading", input |-> heading,
                  output |-> normalizeHeading(heading)]
  /\ UNCHANGED helperFrame

\* StreetViewMarker.setHeading(heading) on a marker; the output is the
\* heading the marker then holds.
MarkerSetHeadingCall ==
  /\ \E heading \in HeadingInputs :
       LET w == [marker |-> Some([onMap |-> FALSE, lngLat |-> Null,
                                  heading |-> 0])]
       IN helper' = [fn |-> "setHeading", input |-> heading,
                     output |-> Val(markerSetHeading(w, heading).marker).heading]
  /\ UNCHANGED helperFrame

UseStreetViewProviderCall ==
  /\ \E config \in ProviderConfigs :
       helper' = [fn |-> "useStreetViewProvider", input |-> config,
                  output |-> useStreetViewProvider(config)]
  /\ UNCHANGED helperFrame

BuildUrlCall ==
  /\ \E url \in BaseUrls, params \in ParamObjects :
       helper' = [fn |-> "buildUrl",
                  input |-> [baseUrl |-> url, params |-> params],
                  output |-> buildUrl(url, params)]
  /\ UNCHANGED helperFrame

FindClosestPointCall ==
  /\ \E target \in Latitudes, latitudes \in PointLists :
       LET points == WithIds(latitudes)
       IN helper' = [fn |-> "findClosestPoint",
                     input |-> [target |-> target, points |-> points],
                     output |-> findClosestPoint(target, points)]
  /\ UNCHANGED helperFrame

NextHelper ==
  \/ NormalizeHeadingCall
  \/ MarkerSetHeadingCall
  \/ UseStreetViewProviderCall
  \/ BuildUrlCall
  \/ FindClosestPointCall

SpecHelper == InitHelper /\ [][NextHelper]_vars

\* ------------------------------------------- debounce and throttle, timed
MaxTime == 6
MaxWrapperCalls == 4
Delays == {1, 2, 3}
CallArgs == {"a", "b"}

wrapperFrame ==
  <<controlVars, search, resizable, standalone, hook, helper, subscriber,
    caller>>

InitWrapper ==
  /\ Constructed(Baseline)
  /\ search = IdleSearch
  /\ subscriber = NoSubscriber
  /\ caller = NoCaller
  /\ resizable = NewPanel(DefaultPanelWidth, DefaultPanelHeight, "top-right")
  /\ standalone = NewStandalone("google")
  /\ hook = useStreetViewState(NoInitialState)
  /\ helper = NoHelperCall
  /\ \E kind \in {"debounce", "throttle"}, delay \in Delays :
       wrapper = NewWrapper(kind, delay)

DebouncedCall ==
  /\ wrapper.kind = "debounce"
  /\ Len(wrapper.calls) < MaxWrapperCalls
  /\ \E args \in CallArgs : wrapper' = debounced(wrapper, args)
  /\ UNCHANGED wrapperFrame

\* A timer of debounce comes due.
DebounceTimeout ==
  /\ wrapper.kind = "debounce"
  /\ \E timer \in wrapper.timers :
       /\ timer.due <= wrapper.now
       /\ wrapper' = debounceTimeout(wrapper, timer)
  /\ UNCHANGED wrapperFrame

ThrottledCall ==
  /\ wrapper.kind = "throttle"
  /\ Len(wrapper.calls) < MaxWrapperCalls
  /\ \E args \in CallArgs : wrapper' = throttled(wrapper, args)
  /\ UNCHANGED wrapperFrame

\* The timer of throttle comes due.
ThrottleTimeout ==
  /\ wrapper.kind = "throttle"
  /\ \E timer \in wrapper.timers :
       /\ timer.due <= wrapper.now
       /\ wrapper' = throttleTimeout(wrapper, timer)
  /\ UNCHANGED wrapperFrame

\* Time passes; a timer that is due runs before it does.
Tick ==
  /\ wrapper.now < MaxTime
  /\ \A timer \in wrapper.timers : timer.due > wrapper.now
  /\ wrapper' = [wrapper EXCEPT !.now = @ + 1]
  /\ UNCHANGED wrapperFrame

NextWrapper ==
  \/ DebouncedCall
  \/ DebounceTimeout
  \/ ThrottledCall
  \/ ThrottleTimeout
  \/ Tick

SpecWrapper == InitWrapper /\ [][NextWrapper]_vars

\* ------------------------------------------- the control with subscribers
\* A control that takes map clicks, with handlers subscribed through on and
\* off while it is used.
Observed == [Alternate EXCEPT !.clickToView = TRUE]
ObservedEvents == {"statechange", "load"}
Observers == {"observer"}

InitObserved == Constructed(Observed) /\ search = IdleSearch /\ Aside

OnCall ==
  /\ \E event \in ObservedEvents, handler \in Observers :
       Step(controlOn(World, event, handler), Null, Null)

OffCall ==
  /\ \E event \in ObservedEvents, handler \in Observers :
       Step(controlOff(World, event, handler), Null, Null)

NextObserved ==
  \/ OnCall
  \/ OffCall
  \/ Next

SpecObserved == InitObserved /\ [][NextObserved]_vars

\* ------------------------------------ the control's subscriptions alone
SubscriberEvents == {"statechange", "load"}
SubscriberHandlers == {"first", "second"}

\* emit(event): how many times the loop calls each handler, and the type of
\* the event data it gets.
Deliveries(handlers, event) ==
  [handler \in SubscriberHandlers |->
     IF handler \in HandlersFor(handlers, event)
       THEN [times |-> 1, type |-> event]
       ELSE [times |-> 0, type |-> None]]

NoDeliveries ==
  [handler \in SubscriberHandlers |-> [times |-> 0, type |-> None]]

subscriberFrame ==
  <<controlVars, search, resizable, standalone, hook, helper, wrapper,
    caller>>

InitSubscriber ==
  /\ Constructed(Baseline)
  /\ search = IdleSearch
  /\ resizable = NewPanel(DefaultPanelWidth, DefaultPanelHeight, "top-right")
  /\ standalone = NewStandalone("google")
  /\ hook = useStreetViewState(NoInitialState)
  /\ helper = NoHelperCall
  /\ wrapper = NoWrapper
  /\ subscriber = [NoSubscriber EXCEPT !.invoked = NoDeliveries]
  /\ caller = NoCaller

SubscriberOn ==
  /\ Len(subscriber.calls) < MaxCalls
  /\ \E event \in SubscriberEvents, handler \in SubscriberHandlers :
       subscriber' =
         [eventHandlers |-> on(subscriber.eventHandlers, event, handler),
          calls |-> Append(subscriber.calls,
                           [op |-> "on", event |-> event, handler |-> handler]),
          invoked |-> NoDeliveries]
  /\ UNCHANGED subscriberFrame

SubscriberOff ==
  /\ Len(subscriber.calls) < MaxCalls
  /\ \E event \in SubscriberEvents, handler \in SubscriberHandlers :
       subscriber' =
         [eventHandlers |-> off(subscriber.eventHandlers, event, handler),
          calls |-> Append(subscriber.calls,
                           [op |-> "off", event |-> event, handler |-> handler]),
          invoked |-> NoDeliveries]
  /\ UNCHANGED subscriberFrame

\* A method of the control emits an event.
SubscriberEmit ==
  /\ Len(subscriber.calls) < MaxCalls
  /\ \E event \in SubscriberEvents :
       subscriber' =
         [eventHandlers |-> subscriber.eventHandlers,
          calls |-> Append(subscriber.calls,
                           [op |-> "emit", event |-> event, handler |-> None]),
          invoked |-> Deliveries(subscriber.eventHandlers, event)]
  /\ UNCHANGED subscriberFrame

\* onRemove ends with _eventHandlers.clear().
SubscriberRemove ==
  /\ Len(subscriber.calls) < MaxCalls
  /\ subscriber' =
       [eventHandlers |-> {},
        calls |-> Append(subscriber.calls,
                         [op |-> "onRemove", event |-> None, handler |-> None]),
        invoked |-> NoDeliveries]
  /\ UNCHANGED subscriberFrame

NextSubscriber ==
  \/ SubscriberOn
  \/ SubscriberOff
  \/ SubscriberEmit
  \/ SubscriberRemove

SpecSubscriber == InitSubscriber /\ [][NextSubscriber]_vars

\* --------------------------------------------- getState and its callers
MaxSnapshots == 2
FieldValues == [collapsed |-> BOOLEAN, heading |-> {0, 45}]

callerFrame ==
  <<controlVars, search, resizable, standalone, hook, helper, wrapper,
    subscriber>>

InitCaller ==
  /\ Constructed(Baseline)
  /\ search = IdleSearch
  /\ resizable = NewPanel(DefaultPanelWidth, DefaultPanelHeight, "top-right")
  /\ standalone = NewStandalone("google")
  /\ hook = useStreetViewState(NoInitialState)
  /\ helper = NoHelperCall
  /\ wrapper = NoWrapper
  /\ subscriber = NoSubscriber
  /\ caller = [heap |-> <<[collapsed |-> state.collapsed,
                           heading |-> state.heading]>>,
               held |-> <<>>]

\* The caller keeps what a getState call made now returns.
Keep(c) ==
  LET returned == getState(c.heap)
  IN [heap |-> returned.heap,
      held |-> Append(c.held, [ref |-> returned.ref,
                               taken |-> c.heap[OwnState],
                               assigned |-> FALSE])]

GetStateCall ==
  /\ Len(caller.held) < MaxSnapshots
  /\ caller' = Keep(caller)
  /\ UNCHANGED callerFrame

\* A method of the control writes a field of _state and emits an event; a
\* handler keeps the state of the event data, which emit takes from getState.
ControlWrites ==
  /\ \E field \in DOMAIN FieldValues :
       \E value \in FieldValues[field], handled \in BOOLEAN :
          LET written == [caller EXCEPT
                            !.heap = Assign(@, OwnState, field, value)]
          IN /\ handled => Len(caller.held) < MaxSnapshots
             /\ caller' = IF handled THEN Keep(written) ELSE written
  /\ UNCHANGED callerFrame

\* The holder of a returned record assigns to one of its fields.
CallerAssigns ==
  /\ \E k \in 1..Len(caller.held), field \in DOMAIN FieldValues :
       \E value \in FieldValues[field] :
          caller' = [heap |-> Assign(caller.heap, caller.held[k].ref, field,
                                     value),
                     held |-> [caller.held EXCEPT ![k].assigned = TRUE]]
  /\ UNCHANGED callerFrame

NextCaller ==
  \/ GetStateCall
  \/ ControlWrites
  \/ CallerAssigns

SpecCaller == InitCaller /\ [][NextCaller]_vars

TypeOK == Len(lookups) <= issued /\ issued <= MaxLookups

\* ------------------------------------------------------------- properties
\* What the last step did, read from its record.
Emitted(event) == \E k \in 1..Len(last.emitted) : last.emitted[k] = event

ShowInFlight == \E i \in 1..Len(lookups) : lookups[i].kind = "show"

SettledShow ==
  /\ last.query # Null
  /\ Val(last.query).kind = "show"
  /\ Val(last.query).settled

Displays(imagery) ==
  /\ viewer # Null
  /\ Val(viewer).currentProvider = imagery.provider
  /\ Val(IF imagery.provider = "google" THEN googleProvider
                                        ELSE mapillaryProvider).rendered
       = Some(imagery)

\* C1: state.loading is true only while a showStreetView lookup is in flight,
\* and in the state a showStreetView lookup leaves when it settles (imagery
\* found, nothing found, or an exception) state.loading is false.
C1_LoadingOnlyInFlight ==
  /\ state.loading => ShowInFlight
  /\ SettledShow => ~state.loading

\* A lookup has just settled through the catch block, after an earlier one
\* had settled, and nothing is in flight.
C1_Witness ==
  /\ SettledShow
  /\ Val(last.query).threw
  /\ state.error # None
  /\ ~state.loading
  /\ lookups = <<>>
  /\ issued > 1

\* C2: in every state where no lookup is in flight, state.imagery and
\* state.error are not both non-null.
C2_ImageryOrErrorNotBoth ==
  lookups = <<>> => ~(state.imagery # Null /\ state.error # None)

\* C3: every step that changes a field of the state record emits
\* 'statechange', at once or when the lookup it leaves in flight settles.
C3_StateChangeNotified ==
  [][state' # state => (Emitted("statechange")' \/ lookups' # <<>>)]_vars

\* C4: while the control is on the map, the panel carries the expanded class
\* exactly when state.collapsed is false.
C4_PanelVisibleIffExpanded ==
  map => (panel # Null /\ (Val(panel).expanded <=> ~state.collapsed))

\* C5: when the request of a showStreetView lookup fails and the lookup
\* settles on that failure, with the control on the map, state.error is
\* non-null, the no-data panel shows the error and 'error' has been emitted.
C5_RequestFailureReported ==
  (map /\ SettledShow /\ Val(last.query).failed)
    => /\ state.error # None
       /\ Emitted("error")
       /\ noDataMessage # Null
       /\ Val(noDataMessage).mode = "error"

\* C6: queryImagery never rejects; a network failure, a non-OK HTTP status, a
\* parsing exception and a body reporting no usable result all yield null,
\* the value returned when there is no coverage.
C6_QueryNeverRejects ==
  /\ search.status # "rejected"
  /\ \A k \in 1..Len(search.queries) :
       LET q == search.queries[k]
       IN /\ ~q.settlement.rejected
          /\ q.outcome # "found" => q.settlement.value = Null

\* Point queries of both kinds of failure have returned null.
C6_Witness ==
  /\ search.status = "returned"
  /\ search.result = Null
  /\ \E k \in 1..Len(search.queries) :
       search.queries[k].outcome \in FetchFailures
  /\ \E k \in 1..Len(search.queries) :
       search.queries[k].outcome = "not_ok"

C8_ProgressiveSearch ==
  search.op = "nearest" =>
    LET qs == search.queries
        radii == RadiiOf(search.provider)
        asked == [k \in 1..Len(qs) |-> qs[k].radius]
        outstanding == IF search.status = "waiting"
                         THEN Append(asked, search.radius) ELSE asked
    IN /\ \A k \in 1..Len(outstanding) :
            /\ \E n \in 1..Len(radii) : radii[n] = outstanding[k]
            /\ outstanding[k] <= search.maxRadius
            /\ k > 1 => outstanding[k - 1] < outstanding[k]
       /\ \A k \in 1..Len(outstanding) - 1 : qs[k].settlement.value = Null
       /\ Len(outstanding) <= Len(radii)
       /\ search.status = "returned" =>
            /\ search.result = IF qs = <<>> THEN Null
                               ELSE qs[Len(qs)].settlement.value
            /\ search.result = Null <=>
                 \A k \in 1..Len(qs) : qs[k].settlement.value = Null

\* A search capped between two entries of the list found imagery on its
\* second query, and one capped below the first entry returned without any.
C8_Witness ==
  /\ search.op = "nearest"
  /\ search.status = "returned"
  /\ \/ /\ Len(search.queries) = 2
        /\ search.result # Null
        /\ search.maxRadius = 199
     \/ /\ Len(search.queries) = 3
        /\ search.result = Null
        /\ search.maxRadius = 499

\* C9: no query of a showStreetView lookup is issued with a radius above the
\* maxSearchRadius option.
C9_QueryWithinMaxSearchRadius ==
  \A i \in 1..Len(lookups) :
    lookups[i].kind = "show" => lookups[i].radius <= options.maxSearchRadius

\* C10: while the viewer displays Mapillary imagery, the initial heading of
\* the imagery and every bearing the Mapillary viewer reports become
\* state.heading and the marker heading, and 'headingchange' is emitted.
C10_MapillaryHeadingReachesControl ==
  LET shown == viewer # Null /\ Val(viewer).currentProvider = "mapillary"
      reached(h) == /\ state.heading = h
                    /\ Emitted("headingchange")
                    /\ marker # Null => Val(marker).heading = normalizeHeading(h)
  IN /\ (shown /\ last.heading # Null
               /\ Val(last.heading).provider = "mapillary")
          => reached(Val(last.heading).heading)
     /\ (shown /\ last.query # Null
               /\ Val(last.query).settlement.value # Null
               /\ ~Val(last.query).threw
               /\ Val(Val(last.query).settlement.value).provider = "mapillary"
               /\ Val(Val(last.query).settlement.value).heading # Null)
          => reached(Val(Val(Val(last.query).settlement.value).heading))

\* The world w differs from the current state by one more lookup, started
\* with provider p at the given location.
StartsLookup(w, p, location) ==
  /\ Len(w.lookups) = Len(lookups) + 1
  /\ SubSeq(w.lookups, 1, Len(lookups)) = lookups
  /\ LET l == w.lookups[Len(w.lookups)]
     IN l.kind = "show" /\ l.provider = p /\ l.location = location
  /\ w.state.location = Some(location)
  /\ w.state.loading

EndsWith(s, tail) ==
  Len(s) >= Len(tail) /\ SubSeq(s, Len(s) - Len(tail) + 1, Len(s)) = tail

\* C11 as claimed: in every state, setProvider(p) with p not the active
\* provider sets activeProvider to p, starts a lookup with p at state.location
\* whenever that is non-null, and ends by emitting 'providerchange' then
\* 'statechange'; with p the active provider it changes and emits nothing.
C11_SetProviderAlwaysRequeries ==
  \A p \in ProviderTypes :
    LET w == setProvider(World, p)
    IN IF p = state.activeProvider THEN w = World
       ELSE /\ w.state.activeProvider = p
            /\ EndsWith(w.emitted, <<"providerchange", "statechange">>)
            /\ state.location # Null
                 => StartsLookup(w, p, Val(state.location))

\* C11, amended: the lookup is started when state.location is non-null and
\* provider p has its credential; otherwise none is started and
\* state.location stays as it was.
C11_SetProviderRequeries ==
  \A p \in ProviderTypes :
    LET w == setProvider(World, p)
        requeries == state.location # Null /\ ProviderOf(World, p) # Null
    IN IF p = state.activeProvider THEN w = World
       ELSE /\ w.state.activeProvider = p
            /\ EndsWith(w.emitted, <<"providerchange", "statechange">>)
            /\ requeries => StartsLookup(w, p, Val(state.location))
            /\ ~requeries => /\ w.lookups = lookups
                             /\ w.state.location = state.location
                             /\ w.emitted = <<"providerchange", "statechange">>

\* setProvider has just re-queried the location of an earlier lookup with
\* the newly active provider.
C11_Witness ==
  /\ last.emitted = <<"locationchange", "providerchange", "statechange">>
  /\ Len(lookups) = 1
  /\ lookups[1].provider = state.activeProvider
  /\ state.location = Some(lookups[1].location)
  /\ state.imagery # Null
  /\ Val(state.imagery).provider # state.activeProvider

\* C12 as claimed: a map click while collapsed does nothing at all; a click
\* while expanded, with clickToView enabled and the control on the map,
\* starts a lookup at the clicked coordinate; with clickToView disabled the
\* click handler is not reachable.
C12_MapClickAlwaysLooksUp ==
  /\ \A location \in Locations :
       LET w == handleMapClick(World, location)
       IN /\ state.collapsed => w = World
          /\ (~state.collapsed /\ map /\ options.clickToView)
               => StartsLookup(w, state.activeProvider, location)
  /\ ~options.clickToView => ~ENABLED MapClick

\* C12, amended: the click while expanded starts the lookup when the active
\* provider has its credential; when it has none, no lookup is started and
\* no state field changes.
C12_MapClickLooksUp ==
  /\ \A location \in Locations :
       LET w == handleMapClick(World, location)
           listening == ~state.collapsed /\ map /\ options.clickToView
       IN /\ state.collapsed => w = World
          /\ (listening /\ getCurrentProvider(World) # Null)
               => StartsLookup(w, state.activeProvider, location)
          /\ (listening /\ getCurrentProvider(World) = Null)
               => w.lookups = lookups /\ w.state = state
  /\ ~options.clickToView => ~ENABLED MapClick

\* The control is on the map, expanded and listening to clicks, and a lookup
\* has just been started at a coordinate.
C12_Witness ==
  /\ map /\ options.clickToView /\ ~state.collapsed
  /\ last.emitted = <<"locationchange">>
  /\ Len(lookups) = 1
  /\ state.location = Some(lookups[1].location)
  /\ marker # Null /\ Val(marker).lngLat = state.location

\* C13: expand, collapse and toggle change no state field but collapsed and
\* leave the lookups in flight alone; a call that changes collapsed emits
\* 'expand' or 'collapse' and then 'statechange', once each; expand on an
\* expanded control and collapse on a collapsed one do and emit nothing.
C13_ExpandCollapseFrame ==
  LET frame(w) == /\ [w.state EXCEPT !.collapsed = state.collapsed] = state
                  /\ w.lookups = lookups
      expanded(w) == /\ frame(w)
                     /\ IF state.collapsed
                          THEN /\ ~w.state.collapsed
                               /\ w.emitted = <<"expand", "statechange">>
                          ELSE w = World
      collapsed(w) == /\ frame(w)
                      /\ IF ~state.collapsed
                           THEN /\ w.state.collapsed
                                /\ w.emitted = <<"collapse", "statechange">>
                           ELSE w = World
  IN /\ expanded(expand(World))
     /\ collapsed(collapse(World))
     /\ IF state.collapsed THEN expanded(toggle(World))
                           ELSE collapsed(toggle(World))

\* The control has just been expanded while a lookup was in flight.
C13_Witness ==
  /\ last.emitted = <<"expand", "statechange">>
  /\ ~state.collapsed
  /\ state.loading
  /\ lookups # <<>>

\* C14: a search-nearby lookup runs with the active provider at
\* state.location under a cap of 500 m, and that cap is larger than
\* maxSearchRadius, the cap of the lookup that produced the no-data state.
C14_SearchNearbyWidens ==
  \A i \in 1..Len(lookups) :
    lookups[i].kind = "search"
      => /\ lookupMaxRadius(World, lookups[i]) = SearchNearbyRadius
         /\ lookupMaxRadius(World, lookups[i]) > options.maxSearchRadius

\* C18: isConfigured is false exactly for the empty credential; a provider
\* is available, its tab enabled and lookups run with it exactly when its
\* credential option is non-empty.
C18_ConfiguredIffCredential ==
  /\ \A credential \in {"", "key", "token"} :
       isConfigured(credential) <=> credential # ""
  /\ \A p \in ProviderTypes :
       LET given == CredentialOf(World, p) # ""
       IN /\ p \in getAvailableProviders(World) <=> given
          /\ tabs # Null => (p \in Val(tabs).enabled <=> given)
          /\ state.activeProvider = p
               => (getCurrentProvider(World) # Null <=> given)
  /\ \A i \in 1..Len(lookups) : CredentialOf(World, lookups[i].provider) # ""

\* One provider has no credential: its tab is disabled on the map, and a
\* lookup runs with the other one.
C18_Witness ==
  /\ tabs # Null
  /\ Val(tabs).enabled = {"mapillary"}
  /\ options.googleApiKey = ""
  /\ lookups # <<>>
  /\ lookups[1].provider = "mapillary"

\* C15: a panel constructed at least as large as its minimum size never gets
\* narrower than minPanelWidth nor lower than minPanelHeight, whatever the
\* drags, window resizes, positionRelativeTo calls and map-container sizes.
C15_PanelKeepsMinimumSize ==
  /\ resizable.width >= resizable.minWidth
  /\ resizable.height >= resizable.minHeight

\* Call i of the standalone provider subscribes callback and no later call
\* subscribes it again.
LastSubscription(callback, i) ==
  LET calls == standalone.calls
  IN /\ calls[i].op = "onHeadingChange" /\ calls[i].callback = callback
     /\ \A j \in (i + 1)..Len(calls) :
          ~(calls[j].op = "onHeadingChange" /\ calls[j].callback = callback)

Destroys == {i \in 1..Len(standalone.calls) : standalone.calls[i].op = "destroy"}

LastCall == standalone.calls[Len(standalone.calls)]

\* C16: once destroy() has been called, a heading change invokes no callback
\* that was not subscribed again after it; right after destroy() the provider
\* holds no viewer or iframe and no callback; and destroy() can be called in
\* every state of the provider, before any render and right after a destroy.
C16_DestroyDropsCallbacks ==
  /\ \A callback \in HeadingCallbacks :
       (/\ Destroys # {}
        /\ \A i \in 1..Len(standalone.calls) :
             LastSubscription(callback, i) => \E d \in Destroys : d > i)
       => standalone.invoked[callback].times = 0
  /\ (standalone.calls # <<>> /\ LastCall.op = "destroy")
       => /\ standalone.provider.rendered = Null
          /\ standalone.provider.headingCallbacks = {}
  /\ Len(standalone.calls) < MaxCalls => ENABLED DestroyCall

\* A callback subscribed, then a destroy, then a heading change; and a
\* destroy called twice in a row.
C16_Witness ==
  /\ Len(standalone.calls) = MaxCalls
  /\ standalone.calls[1].op = "onHeadingChange"
  /\ standalone.calls[2].op = "destroy"
  /\ standalone.calls[3].op = "destroy"
  /\ LastCall.op = "emitHeadingChange"
  /\ \A callback \in HeadingCallbacks : standalone.invoked[callback].times = 0

\* callback is subscribed by the calls made so far: some call subscribed it
\* and no later call unsubscribed it.
Registered(callback) ==
  \E i \in 1..Len(standalone.calls) :
     /\ standalone.calls[i].op = "onHeadingChange"
     /\ standalone.calls[i].callback = callback
     /\ \A j \in (i + 1)..Len(standalone.calls) :
          ~(/\ standalone.calls[j].op = "offHeadingChange"
            /\ standalone.calls[j].callback = callback)

OnlySubscriptionCalls ==
  \A i \in 1..Len(standalone.calls) :
     standalone.calls[i].op \in
       {"onHeadingChange", "offHeadingChange", "emitHeadingChange"}

\* C17: after any sequence of onHeadingChange and offHeadingChange calls, a
\* heading change h invokes each subscribed callback exactly once, with h,
\* however often it was subscribed, and invokes no other callback.
C17_EmitInvokesRegistered ==
  (/\ standalone.calls # <<>>
   /\ LastCall.op = "emitHeadingChange"
   /\ OnlySubscriptionCalls)
  => \A callback \in HeadingCallbacks :
       standalone.invoked[callback] =
         IF Registered(callback)
           THEN [times |-> 1, heading |-> LastCall.heading]
           ELSE [times |-> 0, heading |-> Null]

\* One callback subscribed twice and invoked once, the other subscribed and
\* removed and not invoked.
C17_Witness ==
  /\ Len(standalone.calls) = MaxCalls
  /\ standalone.calls[1] = Call("onHeadingChange", "first", Null)
  /\ standalone.calls[2] = Call("onHeadingChange", "first", Null)
  /\ standalone.calls[3] = Call("onHeadingChange", "second", Null)
  /\ standalone.calls[4] = Call("offHeadingChange", "second", Null)
  /\ LastCall.op = "emitHeadingChange"
  /\ standalone.invoked["first"].times = 1
  /\ standalone.invoked["second"].times = 0

\* The field a call of the hook may write.
WrittenBy(op) ==
  IF op \in DOMAIN Setters THEN Setters[op].field ELSE "collapsed"

\* C19: toggle inverts collapsed and two toggles restore the state, expand
\* sets collapsed to false, collapse sets it to true, and each of them, like
\* each single-field setter, leaves every other field as it was.
C19_HookWritesOneField ==
  /\ hook.op \in DOMAIN Setters \cup {"toggle", "expand", "collapse"}
       => \A field \in DOMAIN hook.state \ {WrittenBy(hook.op)} :
            hook.state[field] = hook.before[field]
  /\ hook.op = "toggle" => hook.state.collapsed = ~hook.before.collapsed
  /\ hook.op = "expand" => ~hook.state.collapsed
  /\ hook.op = "collapse" => hook.state.collapsed
  /\ hookToggle(hookToggle(hook)).state = hook.state

\* A toggle that found a state with other fields set.
C19_Witness ==
  /\ hook.op = "toggle"
  /\ hook.state.collapsed
  /\ hook.before.loading /\ hook.before.error = "Error"
  /\ hook.before.heading = 90 /\ hook.before.location # Null

\* C20: reset() yields, whatever was set before, the default state (collapsed
\* true, provider google, location, imagery and error null, heading 0, pitch
\* 0, loading false) overlaid with the initial values passed to the hook.
C20_ResetRestoresInitial ==
  hook.op = "reset" =>
    LET default == [collapsed |-> TRUE, activeProvider |-> "google",
                    location |-> Null, imagery |-> Null, heading |-> 0,
                    pitch |-> 0, loading |-> FALSE, error |-> None]
    IN /\ DOMAIN hook.state = DOMAIN default
       /\ \A field \in DOMAIN default :
            hook.state[field] = IF field \in DOMAIN hook.initialState
                                  THEN hook.initialState[field]
                                  ELSE default[field]

\* A reset of a hook given initial values, after setters changed them and
\* other fields.
C20_Witness ==
  /\ hook.op = "reset"
  /\ hook.initialState = [collapsed |-> FALSE]
  /\ hook.before.collapsed /\ hook.before.loading /\ hook.before.pitch # 0
  /\ ~hook.state.collapsed /\ ~hook.state.loading

\* A provider is available under a configuration: enabled, with a credential
\* that is neither null nor empty.
AvailableUnder(config, p) ==
  IF p = "google"
    THEN config.google.enabled /\ config.google.apiKey \notin {None, ""}
    ELSE config.mapillary.enabled /\ config.mapillary.accessToken \notin {None, ""}

\* C21: useStreetViewProvider lists a provider as available, and answers
\* isProviderAvailable with true, exactly when it is enabled with a non-empty
\* credential; getDefaultProvider is google if available, else mapillary if
\* available, else null; hasAnyProvider says whether any is available.
C21_AvailableProviders ==
  helper.fn = "useStreetViewProvider" =>
    LET listed == {helper.output.availableProviders[i] :
                     i \in 1..Len(helper.output.availableProviders)}
    IN /\ \A p \in ProviderTypes :
            /\ p \in listed <=> AvailableUnder(helper.input, p)
            /\ helper.output.isProviderAvailable[p]
                 <=> AvailableUnder(helper.input, p)
       /\ helper.output.getDefaultProvider =
            IF AvailableUnder(helper.input, "google") THEN "google"
            ELSE IF AvailableUnder(helper.input, "mapillary") THEN "mapillary"
            ELSE None
       /\ helper.output.hasAnyProvider <=> listed # {}

\* Google enabled without a key, Mapillary the default.
C21_Witness ==
  /\ helper.fn = "useStreetViewProvider"
  /\ helper.input.google = [enabled |-> TRUE, apiKey |-> ""]
  /\ helper.input.mapillary = [enabled |-> TRUE, accessToken |-> "key"]
  /\ helper.output.getDefaultProvider = "mapillary"
  /\ helper.output.availableProviders = <<"mapillary">>

\* C22: normalizeHeading(h) lies in [0, 360) and differs from h by a multiple
\* of 360, for negative h and multiples of 360 too; so does the heading a
\* marker holds after setHeading(h).
C22_HeadingNormalized ==
  helper.fn \in {"normalizeHeading", "setHeading"} =>
    /\ helper.output >= 0 /\ helper.output < 360
    /\ \E turns \in -2..2 : helper.input = helper.output + 360 * turns
    /\ helper.input \in {360, -360} => helper.output = 0
    /\ helper.input = -90 => helper.output = 270
    /\ helper.input = 450 => helper.output = 90

\* A marker given a negative heading.
C22_Witness ==
  /\ helper.fn = "setHeading"
  /\ helper.input = -90
  /\ helper.output = 270

\* The parameters of a query that are named key.
Named(query, key) == {i \in 1..Len(query) : query[i].key = key}

\* The value of an entry of params is the empty string, null or undefined.
IsOmitted(value) ==
  value.type \in {"null", "undefined"} \/ (value.type = "string" /\ value.text = "")

\* C23 as stated: the URL has a parameter for a key of params exactly when
\* the key's value is not the empty string, null or undefined, and then with
\* the value's string form.
C23_QueryHasExactlyTheSetKeys ==
  helper.fn = "buildUrl" =>
    \A i \in 1..Len(helper.input.params) :
       LET entry == helper.input.params[i]
           named == Named(helper.output.query, entry.key)
       IN IF IsOmitted(entry.value)
            THEN named = {}
            ELSE /\ named # {}
                 /\ \A n \in named :
                      helper.output.query[n].value = entry.value.text

\* C23: the same for the keys the base URL does not carry in its own query;
\* a parameter of the base URL stays when params gives its key no value.
C23_QueryHasTheSetKeys ==
  helper.fn = "buildUrl" =>
    \A i \in 1..Len(helper.input.params) :
       LET entry == helper.input.params[i]
           named == Named(helper.output.query, entry.key)
           carried == Named(helper.input.baseUrl.query, entry.key)
       IN IF IsOmitted(entry.value)
            THEN IF carried = {} THEN named = {}
                 ELSE /\ named # {}
                      /\ \A n \in named :
                           \E c \in carried :
                              helper.output.query[n] = helper.input.baseUrl.query[c]
            ELSE /\ Cardinality(named) = 1
                 /\ \A n \in named :
                      helper.output.query[n].value = entry.value.text

\* A zero that is kept next to an empty string that is left out.
C23_Witness ==
  /\ helper.fn = "buildUrl"
  /\ helper.input.baseUrl.query = <<>>
  /\ helper.input.params =
       <<[key |-> "key", value |-> JsValue("number", "0")],
         [key |-> "empty", value |-> JsValue("string", "")]>>
  /\ helper.output.query = <<[key |-> "key", value |-> "0"]>>

\* C26: findClosestPoint returns null exactly for an empty list; otherwise an
\* element of the list no farther from the target than any other, and of
\* those at that distance the one with the lowest index.
C26_ClosestPoint ==
  helper.fn = "findClosestPoint" =>
    LET points == helper.input.points
        distance(i) == calculateDistance(helper.input.target, points[i].location)
    IN /\ helper.output = Null <=> points = <<>>
       /\ points # <<>> =>
            \E i \in 1..Len(points) :
               /\ Val(helper.output) = points[i]
               /\ \A j \in 1..Len(points) : distance(i) <= distance(j)
               /\ \A j \in 1..(i - 1) : distance(j) > distance(i)

\* Two points at the same distance on either side of the target, behind a
\* farther one: the first of the two is returned.
C26_Witness ==
  /\ helper.fn = "findClosestPoint"
  /\ helper.input.target = 2
  /\ Len(helper.input.points) = 3
  /\ helper.input.points[1].location = 0
  /\ helper.input.points[2].location = 3
  /\ helper.input.points[3].location = 1
  /\ Val(helper.output).id = 2

\* The invocations of fn that call i of the wrapper caused.
InvocationsOf(i) ==
  {k \in 1..Len(wrapper.invoked) : wrapper.invoked[k].call = i}

\* Call i ended a burst: the next call, if any, came more than the delay
\* later, and more than the delay has passed.
EndedBurst(i) ==
  IF i < Len(wrapper.calls)
    THEN wrapper.calls[i + 1].time > wrapper.calls[i].time + wrapper.delay
    ELSE wrapper.now > wrapper.calls[i].time + wrapper.delay

\* C24: through debounce(fn, delay), calls that each come less than delay
\* after the one before invoke fn not at all while they last and exactly
\* once, delay after the last of them, with the arguments of that last call.
C24_DebounceInvokesOncePerBurst ==
  wrapper.kind = "debounce" =>
    /\ \A k \in 1..Len(wrapper.invoked) :
         LET invocation == wrapper.invoked[k]
             call == wrapper.calls[invocation.call]
         IN /\ invocation.args = call.args
            /\ invocation.time = call.time + wrapper.delay
            /\ invocation.call < Len(wrapper.calls) =>
                 wrapper.calls[invocation.call + 1].time >= invocation.time
    /\ \A i \in 1..Len(wrapper.calls) :
         /\ Cardinality(InvocationsOf(i)) <= 1
         /\ EndedBurst(i) => Cardinality(InvocationsOf(i)) = 1
         /\ (/\ i < Len(wrapper.calls)
             /\ wrapper.calls[i + 1].time < wrapper.calls[i].time + wrapper.delay)
              => InvocationsOf(i) = {}

\* Three calls less than the delay apart, and the one invocation they cause.
C24_Witness ==
  /\ wrapper.kind = "debounce"
  /\ wrapper.delay = 2
  /\ Len(wrapper.calls) = 3
  /\ wrapper.calls[1] = [time |-> 0, args |-> "a"]
  /\ wrapper.calls[2] = [time |-> 1, args |-> "a"]
  /\ wrapper.calls[3] = [time |-> 2, args |-> "b"]
  /\ wrapper.invoked = <<[time |-> 4, args |-> "b", call |-> 3]>>

\* Call i of the throttled function came inside the window an earlier
\* invocation opened.
InWindow(i) ==
  \E j \in 1..(i - 1) :
     /\ InvocationsOf(j) # {}
     /\ wrapper.calls[i].time < wrapper.calls[j].time + wrapper.delay

\* Call i came after every window opened before it had ended.
AfterWindows(i) ==
  \A j \in 1..(i - 1) :
     InvocationsOf(j) # {}
       => wrapper.calls[i].time > wrapper.calls[j].time + wrapper.delay

\* C25: through throttle(fn, limit), a call outside a window invokes fn at
\* once and opens a window of length limit, a call inside a window is dropped
\* for good, and the first call after the window invokes fn again: fn runs
\* at most once per window.
C25_ThrottleInvokesOncePerWindow ==
  wrapper.kind = "throttle" =>
    /\ \A k \in 1..Len(wrapper.invoked) :
         LET invocation == wrapper.invoked[k]
             call == wrapper.calls[invocation.call]
         IN /\ invocation.args = call.args
            /\ invocation.time = call.time
            /\ \A earlier \in 1..(k - 1) :
                 invocation.time >= wrapper.invoked[earlier].time + wrapper.delay
    /\ \A i \in 1..Len(wrapper.calls) :
         /\ Cardinality(InvocationsOf(i)) <= 1
         /\ InWindow(i) => InvocationsOf(i) = {}
         /\ AfterWindows(i) => InvocationsOf(i) # {}

\* A call that opens a window, one dropped inside it, one after it.
C25_Witness ==
  /\ wrapper.kind = "throttle"
  /\ wrapper.delay = 2
  /\ Len(wrapper.calls) = 3
  /\ wrapper.calls[1].time = 0
  /\ wrapper.calls[2].time = 1
  /\ wrapper.calls[3].time = 3
  /\ wrapper.now > 3
  /\ InvocationsOf(1) # {} /\ InvocationsOf(2) = {} /\ InvocationsOf(3) # {}

\* The replies the outstanding query of a lookup may get, as QueryResolve
\* draws them.
Replies(l) ==
  {[outcome |-> outcome, heading |-> heading, throws |-> throws] :
     outcome \in FetchOutcomes,
     heading \in CompassAngles \cup {Null},
     throws \in BOOLEAN}
  \cap {r \in [outcome : FetchOutcomes, heading : CompassAngles \cup {Null},
               throws : BOOLEAN] :
          /\ r.heading # Null <=> (r.outcome = "found" /\ l.provider = "mapillary")
          /\ r.throws => (r.outcome = "found" /\ l.provider = "mapillary"
                          /\ viewer # Null)}

Count(s, event) == Cardinality({k \in 1..Len(s) : s[k] = event})

\* What a showStreetView call emits: when it starts, 'locationchange' alone,
\* delivered with the requested location, loading true and no error, and a
\* query is then awaited; while it waits for further replies nothing; when
\* it settles, at most one of 'load' and 'error' and then one 'statechange',
\* 'load' delivered with the imagery and loading false.  loadWhen(found,
\* threw) says when 'load' is emitted.
ShowStreetViewEmits(loadWhen(_, _)) ==
  /\ getCurrentProvider(World) # Null =>
       \A location \in Locations :
          LET w == showStreetViewStart(World, location)
          IN /\ w.emitted = <<"locationchange">>
             /\ w.delivered[1].location = Some(location)
             /\ w.delivered[1].loading
             /\ w.delivered[1].error = None
             /\ Len(w.lookups) = Len(lookups) + 1
  /\ \A i \in 1..Len(lookups) :
       lookups[i].kind = "show" =>
         \A r \in Replies(lookups[i]) :
            LET l == lookups[i]
                settlement == queryImagery(l.provider, l.location, r.outcome,
                                           r.heading)
                w == showStreetViewResume(World, i, settlement, r.throws)
                found == settlement.value # Null
                caught == settlement.rejected \/ (found /\ r.throws)
            IN IF Len(w.lookups) = Len(lookups)
                 THEN w.emitted = <<>> /\ ~found
                 ELSE /\ Count(w.emitted, "locationchange") = 0
                      /\ Count(w.emitted, "statechange") = 1
                      /\ w.emitted[Len(w.emitted)] = "statechange"
                      /\ Count(w.emitted, "load") + Count(w.emitted, "error") <= 1
                      /\ Count(w.emitted, "load") = 1 <=> loadWhen(found, r.throws)
                      /\ Count(w.emitted, "error") = 1 <=> caught
                      /\ \A k \in 1..Len(w.emitted) :
                           w.emitted[k] = "load" =>
                             /\ w.delivered[k].imagery = settlement.value
                             /\ ~w.delivered[k].loading

LoadWhenFound(found, threw) == found

LoadWhenDisplayed(found, threw) == found /\ ~threw

\* C27 as stated: 'load' is emitted exactly when imagery was found.
C27_LoadExactlyWhenFound == ShowStreetViewEmits(LoadWhenFound)

\* C27: a showStreetView call with a configured provider emits
\* 'locationchange' when it starts, then at most one of 'load' (exactly when
\* imagery was found and displaying it threw nothing) and 'error' (exactly
\* when an exception was caught), and last exactly one 'statechange'.
C27_ShowStreetViewEvents == ShowStreetViewEmits(LoadWhenDisplayed)

\* A lookup that settled with imagery: 'load' and then 'statechange'.
C27_Witness ==
  /\ SettledShow
  /\ Val(last.query).settlement.value # Null
  /\ last.emitted = <<"load", "statechange">>
  /\ state.imagery = Val(last.query).settlement.value

\* The viewer shows imagery: a provider is rendering into it.
ViewerShowsImagery ==
  /\ viewer # Null
  /\ Val(viewer).currentProvider # None
  /\ Val(ProviderOf(World, Val(viewer).currentProvider)).rendered # Null

\* C28: when no lookup is in flight and the viewer shows imagery, the
\* provider rendering it and the provider of state.imagery are the active
\* provider, also after setProvider was called during a lookup.
C28_ImageryOfActiveProvider ==
  (lookups = <<>> /\ ViewerShowsImagery) =>
     /\ Val(viewer).currentProvider = state.activeProvider
     /\ state.imagery # Null
     /\ Val(state.imagery).provider = state.activeProvider

\* C29: what clearStreetView() cleared stays cleared until the next
\* showStreetView call, also when a lookup in flight at the time settles
\* afterwards: state.imagery is non-null only with state.location non-null.
C29_ImageryOnlyWithLocation ==
  state.imagery # Null => state.location # Null

\* C30: while the control is on the map, the provider ProviderTabs records as
\* active is state.activeProvider and its tab, and no other, carries the
\* active class.
C30_TabsFollowActiveProvider ==
  map =>
    /\ tabs # Null
    /\ Val(tabs).activeProvider = state.activeProvider
    /\ Val(tabs).activeClass = {state.activeProvider}

\* C34: state.heading is always within [0, 360) degrees, whatever heading the
\* providers report or GoogleStreetViewProvider.setHeading is given.
C34_StateHeadingInRange ==
  state.heading >= 0 /\ state.heading < FullCircle

\* No provider of the control holds a rendered viewer or iframe.
NothingRendered ==
  \A p \in ProviderTypes :
     ProviderOf(World, p) # Null => Val(ProviderOf(World, p)).rendered = Null

\* C32: after onRemove() an emission invokes no handler whose subscription
\* the removal cleared (unless on subscribed it again), a map click starts
\* no lookup, and a lookup that settles renders nothing into the viewer and
\* throws nothing.
C32_RemovedControlIsSilent ==
  /\ \A k \in 1..Len(last.invoked) :
        \A handler \in last.invoked[k].handlers :
           Subscription(last.invoked[k].type, handler) \notin dropped
  /\ ~map =>
       /\ ~ENABLED MapClick
       /\ viewer = Null
       /\ NothingRendered
       /\ last.query # Null =>
            /\ ~Val(last.query).threw
            /\ ~Emitted("error")

\* A lookup that found imagery settles on a removed control whose 'load' and
\* 'statechange' subscriptions the removal cleared: nobody is told.
C32_Witness ==
  /\ ~map
  /\ dropped = {Subscription("load", "observer"),
                Subscription("statechange", "observer")}
  /\ SettledShow
  /\ state.imagery = Val(last.query).settlement.value
  /\ state.imagery # Null
  /\ last.emitted = <<"load", "statechange">>
  /\ \A k \in 1..Len(last.invoked) : last.invoked[k].handlers = {}

\* C31: showStreetView with an active provider that is not configured shows
\* 'No street view provider is configured.' in the viewer and does nothing
\* else: location, loading, error and imagery stay, the marker stays, no
\* query is issued and nothing is emitted.
C31_UnconfiguredShowIsNoOp ==
  getCurrentProvider(World) = Null =>
    \A location \in Locations :
       LET w == showStreetViewStart(World, location)
       IN /\ w.state.location = state.location
          /\ w.state.loading = state.loading
          /\ w.state.error = state.error
          /\ w.state.imagery = state.imagery
          /\ w.marker = marker
          /\ w.lookups = lookups
          /\ w.emitted = <<>>
          /\ viewer # Null =>
               /\ w.noDataMessage # Null
               /\ Val(w.noDataMessage).attached
               /\ Val(w.noDataMessage).mode = "error"
               /\ Val(w.noDataMessage).message = NoProviderMessage

\* showStreetView was called on a control on the map whose active provider
\* has no credential, before any location was looked up.
C31_Witness ==
  /\ map
  /\ getCurrentProvider(World) = Null
  /\ noDataMessage # Null
  /\ Val(noDataMessage).message = NoProviderMessage
  /\ state.location = Null
  /\ last = NoLast

\* The events of a sequence other than 'headingchange'.
WithoutHeadingChange(s) == SelectSeq(s, LAMBDA event : event # "headingchange")

\* C33: the search-nearby action does nothing when state.location is null or
\* the active provider is not configured; when its search finds imagery it
\* sets state.imagery, removes the no-data message, displays the imagery and
\* emits 'load' then 'statechange'; when it finds none it shows the
\* not-found message, leaves state.imagery and emits only 'statechange'; it
\* never changes state.location or state.loading.
C33_SearchNearby ==
  /\ (state.location = Null \/ getCurrentProvider(World) = Null) =>
        searchNearestStart(World) = World
  /\ \A i \in 1..Len(lookups) :
       lookups[i].kind = "search" =>
         \A r \in Replies(lookups[i]) :
            LET l == lookups[i]
                settlement == queryImagery(l.provider, l.location, r.outcome,
                                           r.heading)
                w == searchNearestResume(World, i, settlement, r.throws)
            IN /\ w.state.location = state.location
               /\ w.state.loading = state.loading
               /\ IF Len(w.lookups) = Len(lookups)
                    THEN w.emitted = <<>> /\ w.state.imagery = state.imagery
                  ELSE IF settlement.value # Null
                    THEN /\ w.state.imagery = settlement.value
                         /\ w.noDataMessage = Null
                         /\ w.viewer # Null =>
                              /\ Val(w.viewer).currentProvider = l.provider
                              /\ Val(ProviderOf(w, l.provider)).rendered
                                   = settlement.value
                         /\ WithoutHeadingChange(w.emitted)
                              = <<"load", "statechange">>
                    ELSE /\ w.state.imagery = state.imagery
                         /\ w.noDataMessage # Null =>
                              Val(w.noDataMessage).mode = "notfound"
                         /\ w.emitted = <<"statechange">>

\* The marker is attached to the map.
MarkerOnMap(w) == w.marker # Null /\ Val(w.marker).onMap

\* C36: the marker is on the map only while state.location is non-null and
\* the control is on the map: a showStreetView lookup with a configured
\* provider attaches it, clearStreetView and onRemove detach it, it never is
\* with showMarker false, and no lookup that settles attaches it.
C36_MarkerOnlyWithLocation ==
  /\ MarkerOnMap(World) => (map /\ state.location # Null)
  /\ ~options.showMarker => marker = Null
  /\ (map /\ options.showMarker /\ getCurrentProvider(World) # Null) =>
        \A location \in Locations :
           LET w == showStreetViewStart(World, location)
           IN MarkerOnMap(w) /\ Val(w.marker).lngLat = Some(location)
  /\ ~MarkerOnMap(clearStreetView(World))
  /\ ~MarkerOnMap(onRemove(World))
  /\ \A i \in 1..Len(lookups) :
        \A r \in Replies(lookups[i]) :
           LET l == lookups[i]
               settlement == queryImagery(l.provider, l.location, r.outcome,
                                          r.heading)
               w == IF l.kind = "show"
                      THEN showStreetViewResume(World, i, settlement, r.throws)
                      ELSE searchNearestResume(World, i, settlement, r.throws)
           IN MarkerOnMap(w) <=> MarkerOnMap(World)

\* A lookup that was in flight at clearStreetView found imagery: the marker
\* was moved to the imagery and is still off the map.
C36_Witness ==
  /\ SettledShow
  /\ state.imagery # Null
  /\ state.imagery = Val(last.query).settlement.value
  /\ state.location = Null
  /\ marker # Null
  /\ Val(marker).lngLat = Some(Val(state.imagery).location)
  /\ ~Val(marker).onMap

PanelSize(p) == [width |-> p.width, height |-> p.height]

\* C35: resizing is a drag in two states.  It begins only at a mousedown on
\* the handle and ends at the next mouseup; a mousemove changes the size only
\* during it; onResize is called only at the mouseup that ends it, with the
\* panel's size, which the control stores as panelWidth and panelHeight; a
\* mousemove or mouseup outside a drag changes nothing; after destroy() no
\* mouse event is handled.
C35_ResizeIsADrag ==
  /\ [](~resizable.isResizing =>
          /\ onResizeEnd(resizable) = resizable
          /\ \A pointer \in Pointers, rect \in ContainerRects,
                window \in WindowSizes :
                onResizeMove(resizable, pointer.x, pointer.y, rect, window)
                  = resizable)
  /\ [][/\ (~resizable.isResizing /\ resizable'.isResizing) => HandleMouseDown
        /\ (resizable.isResizing /\ ~resizable'.isResizing) => DocumentMouseUp
        /\ (DocumentMouseUp /\ resizable.isResizing) =>
              /\ ~resizable'.isResizing
              /\ resizable'.resized = Some(PanelSize(resizable))
              /\ PanelSize(resizable') = PanelSize(resizable)
              /\ options'.panelWidth = resizable.width
              /\ options'.panelHeight = resizable.height
        /\ (resizable'.resized # resizable.resized \/ options' # options) =>
              (DocumentMouseUp /\ resizable.isResizing)
        /\ (DocumentMouseMove /\ PanelSize(resizable') # PanelSize(resizable))
              => resizable.isResizing
        /\ ~resizable.listening =>
              ~(HandleMouseDown \/ DocumentMouseMove \/ DocumentMouseUp)
       ]_vars

\* A drag from (150, 100) to (0, 0) of a panel at the top right has ended:
\* onResize got the size it left, and the control stored it.
C35_Witness ==
  /\ ~resizable.isResizing
  /\ resizable.position = "top-right"
  /\ PanelSize(resizable) = [width |-> 550, height |-> 200]
  /\ resizable.resized = Some(PanelSize(resizable))
  /\ options.panelWidth = 550
  /\ options.panelHeight = 200

\* The call of the control that came last.
LastSubscriberCall == subscriber.calls[Len(subscriber.calls)]

\* The calls made so far leave handler subscribed to event: some call since
\* the last onRemove was on(event, handler), and no later call was
\* off(event, handler).
Subscribed(event, handler) ==
  \E i \in 1..Len(subscriber.calls) :
     /\ subscriber.calls[i] = [op |-> "on", event |-> event,
                               handler |-> handler]
     /\ \A j \in (i + 1)..Len(subscriber.calls) :
          /\ subscriber.calls[j] # [op |-> "off", event |-> event,
                                    handler |-> handler]
          /\ subscriber.calls[j].op # "onRemove"

\* C38: after any on and off calls, an emission of an event calls exactly
\* the handlers subscribed to that event, each once however often it was
\* subscribed, with event.type the event's name, and no handler of another
\* event; off with a handler that is not subscribed changes nothing.
C38_EmitCallsSubscribed ==
  /\ (subscriber.calls # <<>> /\ LastSubscriberCall.op = "emit") =>
       \A handler \in SubscriberHandlers :
          subscriber.invoked[handler] =
            IF Subscribed(LastSubscriberCall.event, handler)
              THEN [times |-> 1, type |-> LastSubscriberCall.event]
              ELSE [times |-> 0, type |-> None]
  /\ \A event \in SubscriberEvents, handler \in SubscriberHandlers :
       ~Subscribed(event, handler) =>
          off(subscriber.eventHandlers, event, handler)
            = subscriber.eventHandlers

\* One handler subscribed twice to 'statechange' and called once; the other
\* subscribed to 'load' and not called; an off for a pair never subscribed.
C38_Witness ==
  /\ Len(subscriber.calls) = MaxCalls
  /\ subscriber.calls[1] = [op |-> "on", event |-> "statechange",
                            handler |-> "first"]
  /\ subscriber.calls[2] = [op |-> "on", event |-> "statechange",
                            handler |-> "first"]
  /\ subscriber.calls[3] = [op |-> "on", event |-> "load",
                            handler |-> "second"]
  /\ subscriber.calls[4] = [op |-> "off", event |-> "load",
                            handler |-> "first"]
  /\ LastSubscriberCall = [op |-> "emit", event |-> "statechange",
                           handler |-> None]
  /\ subscriber.invoked["first"] = [times |-> 1, type |-> "statechange"]
  /\ subscriber.invoked["second"].times = 0

\* C37: what getState() returns and what event data carries are snapshots:
\* assigning to a field of such a record never changes the control's own
\* state, and a record keeps the values it had when it was made whatever the
\* control does later.
C37_StateIsASnapshot ==
  \A k \in 1..Len(caller.held) :
     LET kept == caller.held[k]
     IN /\ ~kept.assigned => caller.heap[kept.ref] = kept.taken
        /\ \A field \in DOMAIN FieldValues :
              \A value \in FieldValues[field] :
                 Assign(caller.heap, kept.ref, field, value)[OwnState]
                   = caller.heap[OwnState]

\* Two records are held; the control's state has moved on from the first,
\* untouched one, and differs from the second, to which its holder assigned.
C37_Witness ==
  /\ Len(caller.held) = MaxSnapshots
  /\ ~caller.held[1].assigned
  /\ caller.heap[caller.held[1].ref] = caller.held[1].taken
  /\ caller.heap[OwnState] # caller.held[1].taken
  /\ caller.held[2].assigned
  /\ caller.heap[caller.held[2].ref] # caller.heap[OwnState]
  /\ caller.heap[caller.held[2].ref] # caller.held[2].taken

====
